---- MODULE Spec2Model ----
(***************************************************************************)
(* A model of the StoryboardAI front end and start-up scripts.            *)
(*                                                                         *)
(* Each React page is modelled as a state machine over its useState       *)
(* fields; every handler is one action per await point (the part before   *)
(* the request is sent, and the continuation run when the response        *)
(* arrives).  A handler's continuation closes over the values of the      *)
(* render in which the handler was invoked; those captured values travel  *)
(* with the request record in `inflight`.                                 *)
(*                                                                         *)
(* The pages are independent of each other, so each has a specification   *)
(* of its own (SpecSB, SpecFS, ...) that leaves the other pages' state    *)
(* untouched.                                                              *)
(***************************************************************************)
EXTENDS Integers, Sequences, FiniteSets, TLC

(***************************************************************************)
(* Bounds of the model.                                                    *)
(***************************************************************************)
\* most frames the server hands out for one page
MaxServerFrames == 7
\* pages of a project
MaxPages == 2
\* user-initiated requests (feedback, generate, page change) per run
MaxOps == 2
\* most questions the server asks for one consultation stage
MaxQuestions == 2
\* projects and actors that exist when the list pages are opened
MaxItems == 2
\* projects the server creates per run
MaxCreated == 2
\* tokens of a relative image path
MaxUrlLen == 4
\* tokens after the origin of an absolute image URL
MaxAbsLen == 2
\* largest exit status of a test run
MaxExitCode == 2
\* requests with ensure_directories=true in a row
MaxEnsureCalls == 3
\* WebSocketClient objects constructed per run
MaxClients == 2
\* registrations held by one client
MaxHandlers == 2
\* reconnection attempts observed without an open in between
MaxWaits == 7
\* frames of each page that already have an image on the server
StoredImages == 1
\* the user clicks only on the first MaxClickIndex cards of the grid
MaxClickIndex == 2

(***************************************************************************)
(* StoryboardView.js                                                       *)
(***************************************************************************)
VARIABLES
  project,            \* project details loaded (project !== null)
  frames,             \* useState([]) frames of the displayed page
  loading,
  error,
  currentPage,
  totalPages,
  selectedFrame,      \* frame_id of the selected frame, NoFrame for null
  showFeedbackModal,
  feedbackText,
  submittingFeedback,
  generatingImage,    \* the frame_ids whose generatingImage entry is true
  inflight,           \* requests sent and not yet answered, with the closure of their handler
  fetchDataPc,        \* position of fetchData in its chain of awaits
  nextImage,          \* server: number of the next generated image
  serverCount,        \* server: frames stored for each page of the project
  sbOps,              \* user-initiated requests so far
  lastOp              \* the step taken last (history)

VARIABLES
  fsProject,          \* FilmSchoolConsultation: project loaded (project !== null)
  questions,
  answers,            \* object keyed by question index (from 0)
  evaluation,
  currentStage,
  nextStage,
  fsLoading,          \* FilmSchoolConsultation: loading
  submitting,
  fsError,            \* FilmSchoolConsultation: error
  generatingAnswer,   \* the question indexes whose generatingAnswer entry is true
  forceCreatingConsultation,
  stageProgress,
  fsPc,               \* the await at which the page's running handler is suspended
  submitted,          \* the formattedAnswers of the submitAnswers request sent last
  srvExists,          \* server: a consultation exists for the project
  srvStage            \* server: index of the stage whose answers are awaited

VARIABLES
  items,              \* ProjectList projects / ActorList actors: the ids on display, per page
  listLoading,
  listError,
  listInflight,       \* requests of the two list pages not yet answered
  srvItems,           \* server: the ids that exist, per page
  confirmedDeletes,           \* the <<page, id>> whose confirmation dialog the user accepted (history)
  sentDeletes,        \* the <<page, id>> for which a delete request was sent (history)
  listOp              \* the step of the list pages taken last (history)

VARIABLES
  formData,           \* CreateProject
  isSubmitting,
  cpError,            \* CreateProject: error
  location,           \* the router's path
  createPending,      \* the createProject request is in flight
  srvCreated,         \* server: projects created so far; the last project_id handed out
  cpLast              \* the step of CreateProject taken last (history)

VARIABLES
  runPc,              \* run_app.sh: the line the script is at
  shEnv,              \* the script's exported environment
  dotenvExists,       \* backend/config/.env is a file
  dotenvFile,         \* its NAME=value lines
  dockerFound,        \* command -v docker && command -v docker-compose
  useDocker,          \* the user's answer to the Docker prompt is y
  createdDirs,
  linkedDirs,
  backendUri,         \* the MongoDB URI the running backend connects to
  backendIn,          \* "none", "docker" or "local"
  frontendUp

VARIABLES
  image_url,           \* the argument of utils.formatImageUrl
  envApiUrl,             \* process.env.REACT_APP_API_URL, <<>> when not set
  formatted,          \* what formatImageUrl returned
  urlPc

VARIABLES
  editFormData,       \* ActorDetail
  showEditModal,
  editLoading,
  editError,
  putData,            \* the actorData of the last updateActor call (history)
  lastPut,            \* the request that call produced (history)
  putPending          \* its response is outstanding

VARIABLES
  testPc,             \* run_tests.sh: the part of the script it is at
  apiHttp,            \* what curl reports for http://localhost:8000/health
  frontendHttp,       \* what curl reports for http://localhost:3000
  puppeteerListed,    \* npm list puppeteer succeeds
  apiOutcome,         \* the exit status python3 test_api_comprehensive.py would have
  uiOutcome,          \* the exit status npm run ui-test would have
  API_TEST_STATUS,    \* NotRun until the API tests have run
  UI_TEST_STATUS,     \* NotRun until the UI tests have run
  puppeteerInstalls,  \* times npm install --save-dev puppeteer ran
  exitStatus          \* NotRun while the script runs

VARIABLES
  existingDirs,       \* backend: the required directories that exist on disk
  initResponse,       \* the body of the last response of /initialize or /api/initialize
  dirsBefore,         \* the directories that existed when that request arrived (history)
  ensureCalls,        \* requests with ensure_directories=true since the last removal (history)
  initOp              \* the step taken last (history)

VARIABLES
  wsClient,           \* socket module: let wsClient; 0 for null, else the client
  clientsMade,        \* WebSocketClient objects constructed so far; they are numbered 1, 2, ...
  readyState,         \* per client: the state of this.ws ("none" while this.ws is null)
  isConnected,        \* per client: this.isConnected
  reconnectAttempts,  \* per client: this.reconnectAttempts
  reconnectDelay,     \* per client: this.reconnectDelay
  messageHandlers,    \* per client: this.messageHandlers
  reconnectTimer,     \* per client: the delay of the pending setTimeout, 0 when none is pending
  ctorThrows,         \* new WebSocket(wsUrl) throws in this environment
  closedByUser,       \* per client: close() was called on it (history)
  waits,              \* per client: the waits before the attempts made since the last open (history)
  unsubscribers,      \* the <<client, handler>> whose unsubscribe function the caller holds (history)
  wsOp                \* the step taken last (history)

sbVars == <<project, frames, loading, error, currentPage, totalPages,
            selectedFrame, showFeedbackModal, feedbackText, submittingFeedback,
            generatingImage, inflight, fetchDataPc, nextImage, serverCount, sbOps,
            lastOp>>

fsVars == <<fsProject, questions, answers, evaluation, currentStage, nextStage, fsLoading,
            submitting, fsError, generatingAnswer, forceCreatingConsultation, stageProgress,
            fsPc, submitted, srvExists, srvStage>>

listVars == <<items, listLoading, listError, listInflight, srvItems, confirmedDeletes, sentDeletes,
              listOp>>

createVars == <<formData, isSubmitting, cpError, location, createPending, srvCreated, cpLast>>

runVars == <<runPc, shEnv, dotenvExists, dotenvFile, dockerFound, useDocker, createdDirs,
             linkedDirs, backendUri, backendIn, frontendUp>>

urlVars == <<image_url, envApiUrl, formatted, urlPc>>

actorVars == <<editFormData, showEditModal, editLoading, editError, putData, lastPut, putPending>>

testVars == <<testPc, apiHttp, frontendHttp, puppeteerListed, apiOutcome, uiOutcome, API_TEST_STATUS, UI_TEST_STATUS, puppeteerInstalls, exitStatus>>

initVars == <<existingDirs, initResponse, dirsBefore, ensureCalls, initOp>>

socketVars == <<wsClient, clientsMade, readyState, isConnected, reconnectAttempts, reconnectDelay, messageHandlers, reconnectTimer, ctorThrows, closedByUser, waits, unsubscribers, wsOp>>

vars == <<sbVars, fsVars, listVars, createVars, runVars, urlVars, actorVars, testVars, initVars, socketVars>>

notSB == <<fsVars, listVars, createVars, runVars, urlVars, actorVars, testVars, initVars, socketVars>>
notFS == <<sbVars, listVars, createVars, runVars, urlVars, actorVars, testVars, initVars, socketVars>>
notLists == <<sbVars, fsVars, createVars, runVars, urlVars, actorVars, testVars, initVars, socketVars>>
notCreate == <<sbVars, fsVars, listVars, runVars, urlVars, actorVars, testVars, initVars, socketVars>>
notRun == <<sbVars, fsVars, listVars, createVars, urlVars, actorVars, testVars, initVars, socketVars>>
notUrl == <<sbVars, fsVars, listVars, createVars, runVars, actorVars, testVars, initVars, socketVars>>
notActor == <<sbVars, fsVars, listVars, createVars, runVars, urlVars, testVars, initVars, socketVars>>
notTests == <<sbVars, fsVars, listVars, createVars, runVars, urlVars, actorVars, initVars, socketVars>>
notInitialize == <<sbVars, fsVars, listVars, createVars, runVars, urlVars, actorVars, testVars, socketVars>>
notSocket == <<sbVars, fsVars, listVars, createVars, runVars, urlVars, actorVars, testVars, initVars>>

\* const [framesPerPage] = useState(6)
framesPerPage == 6

NoFrame == <<>>
NoError == "none"

\* values of the feedback textarea: empty, blank, and a real note
Texts == {"", " ", "brighter"}

\* String.prototype.trim on the values of Texts
Trim(t) == IF t = " " THEN "" ELSE t

Pages == 1..MaxPages

\* a frame as the server returns it; the first StoredImages frames of a page have an image
ServerFrame(page, i) ==
  [frame_id |-> <<"frame", page, i>>,
   image_url |-> IF i <= StoredImages THEN <<"stored", page, i>> ELSE <<>>,
   feedback_history |-> <<>>,
   is_placeholder |-> FALSE]

\* the data of the response to getProjectFrames(projectId, page)
ServerFrames(page, n) == [i \in 1..n |-> ServerFrame(page, i)]

\* the placeholder objects built in fetchFramesForPage; image_url and feedback_history are undefined
Placeholder(page, i) ==
  [frame_id |-> <<"placeholder", page, i>>,
   image_url |-> <<>>,
   feedback_history |-> <<>>,
   is_placeholder |-> TRUE]

\* Array(framesPerPage - framesData.length).fill().map((_, i) => ...), i from 0
Placeholders(page, len) == [j \in 1..(framesPerPage - len) |-> Placeholder(page, j - 1)]

\* the body of fetchFramesForPage between the await and setFrames
PadFrames(page, framesData) ==
  IF Len(framesData) < framesPerPage
    THEN framesData \o Placeholders(page, Len(framesData))
    ELSE framesData

Request(kind, page, from, frame_id, text, snap) ==
  [kind |-> kind, page |-> page, from |-> from, frame_id |-> frame_id,
   text |-> text, snap |-> snap]

FetchRequest(page, from) == Request("fetch", page, from, NoFrame, "", <<>>)

Op(kind, frame_id, url, text, before) ==
  [kind |-> kind, frame_id |-> frame_id, url |-> url, text |-> text, before |-> before]

\* any step that is neither a successful feedback submission nor a successful page fetch
OtherOp == Op("other", NoFrame, <<>>, "", <<>>)

\* frames.map(frame => frame.frame_id === selectedFrame.frame_id ? {...} : frame) in handleFeedbackSubmit
ApplyFeedback(fs, frame_id, url, text) ==
  [i \in DOMAIN fs |->
     IF fs[i].frame_id = frame_id
       THEN [fs[i] EXCEPT !.image_url = url,
                          !.feedback_history = Append(fs[i].feedback_history, text)]
       ELSE fs[i]]

\* frames.map(f => f.frame_id === frame.frame_id ? {...f, image_url} : f) in handleGenerateImage
ApplyImage(fs, frame_id, url) ==
  [i \in DOMAIN fs |->
     IF fs[i].frame_id = frame_id THEN [fs[i] EXCEPT !.image_url = url] ELSE fs[i]]

\* the useState initial values of StoryboardView, fetchData about to start
MountedSB ==
  /\ project = FALSE
  /\ frames = <<>>
  /\ loading = TRUE
  /\ error = NoError
  /\ currentPage = 1
  /\ totalPages = 1
  /\ selectedFrame = NoFrame
  /\ showFeedbackModal = FALSE
  /\ feedbackText = ""
  /\ submittingFeedback = FALSE
  /\ generatingImage = {}
  /\ inflight = {}
  /\ fetchDataPc = "getProject"
  /\ nextImage = 1
  /\ sbOps = 0
  /\ lastOp = OtherOp

InitSB == MountedSB /\ serverCount \in 0..MaxServerFrames

\* StoryboardView mounted over a project without frames, left alone
ParkedSB == MountedSB /\ serverCount = 0

\* fetchData: projectsAPI.getProject resolves; setProject makes the page effect run fetchFramesForPage(currentPage)
FetchDataGetProject ==
  /\ fetchDataPc = "getProject"
  /\ project' = TRUE
  /\ fetchDataPc' = "getProjectPages"
  /\ loading' = TRUE
  /\ inflight' = inflight \cup {FetchRequest(currentPage, "effect")}
  /\ lastOp' = OtherOp
  /\ UNCHANGED <<frames, error, currentPage, totalPages, selectedFrame, showFeedbackModal,
                 feedbackText, submittingFeedback, generatingImage, nextImage, serverCount, sbOps>>
  /\ UNCHANGED notSB

\* fetchData: projectsAPI.getProjectPages resolves; fetchFramesForPage(1) is called
FetchDataGetPages ==
  /\ fetchDataPc = "getProjectPages"
  /\ \E n \in Pages : totalPages' = n
  /\ fetchDataPc' = "fetchFrames"
  /\ loading' = TRUE
  /\ inflight' = inflight \cup {FetchRequest(1, "fetchData")}
  /\ lastOp' = OtherOp
  /\ UNCHANGED <<project, frames, error, currentPage, selectedFrame, showFeedbackModal,
                 feedbackText, submittingFeedback, generatingImage, nextImage, serverCount, sbOps>>
  /\ UNCHANGED notSB

\* fetchData: actorsAPI.getActors resolves; finally setLoading(false)
FetchDataGetActors ==
  /\ fetchDataPc = "getActors"
  /\ fetchDataPc' = "done"
  /\ loading' = FALSE
  /\ lastOp' = OtherOp
  /\ UNCHANGED <<project, frames, error, currentPage, totalPages, selectedFrame,
                 showFeedbackModal, feedbackText, submittingFeedback, generatingImage,
                 inflight, nextImage, serverCount, sbOps>>
  /\ UNCHANGED notSB

\* fetchData: one of its own requests rejects; catch and finally
FetchDataFail ==
  /\ fetchDataPc \in {"getProject", "getProjectPages", "getActors"}
  /\ fetchDataPc' = "done"
  /\ error' = "Failed to load storyboard data"
  /\ loading' = FALSE
  /\ lastOp' = OtherOp
  /\ UNCHANGED <<project, frames, currentPage, totalPages, selectedFrame,
                 showFeedbackModal, feedbackText, submittingFeedback, generatingImage,
                 inflight, nextImage, serverCount, sbOps>>
  /\ UNCHANGED notSB

\* fetchFramesForPage after the await: the server answers with the frames of the page
FetchFramesOk ==
  \E r \in inflight :
    /\ r.kind = "fetch"
    /\ frames' = PadFrames(r.page, ServerFrames(r.page, serverCount))
    /\ loading' = FALSE
    /\ inflight' = inflight \ {r}
    /\ fetchDataPc' = IF r.from = "fetchData" THEN "getActors" ELSE fetchDataPc
    /\ lastOp' = Op("fetchOk", NoFrame, <<>>, "", ServerFrames(r.page, serverCount))
    /\ UNCHANGED <<project, error, currentPage, totalPages, selectedFrame,
                   showFeedbackModal, feedbackText, submittingFeedback, generatingImage,
                   nextImage, serverCount, sbOps>>
    /\ UNCHANGED notSB

\* fetchFramesForPage: the request rejects
FetchFramesFail ==
  \E r \in inflight :
    /\ r.kind = "fetch"
    /\ error' = "Failed to load frames"
    /\ loading' = FALSE
    /\ inflight' = inflight \ {r}
    /\ fetchDataPc' = IF r.from = "fetchData" THEN "getActors" ELSE fetchDataPc
    /\ lastOp' = OtherOp
    /\ UNCHANGED <<project, frames, currentPage, totalPages, selectedFrame,
                   showFeedbackModal, feedbackText, submittingFeedback, generatingImage,
                   nextImage, serverCount, sbOps>>
    /\ UNCHANGED notSB

\* the frame grid is rendered and not covered by the feedback modal
GridUsable == ~loading /\ ~showFeedbackModal

\* handlePageChange(pageNumber); the effect on currentPage fetches the page
HandlePageChange ==
  \E p \in 1..totalPages :
    /\ GridUsable
    /\ p # currentPage
    /\ sbOps < MaxOps
    /\ sbOps' = sbOps + 1
    /\ currentPage' = p
    /\ IF project
         THEN /\ loading' = TRUE
              /\ inflight' = inflight \cup {FetchRequest(p, "effect")}
         ELSE UNCHANGED <<loading, inflight>>
    /\ lastOp' = OtherOp
    /\ UNCHANGED <<project, frames, error, totalPages, selectedFrame, showFeedbackModal,
                   feedbackText, submittingFeedback, generatingImage, fetchDataPc, nextImage, serverCount>>
    /\ UNCHANGED notSB

\* card onClick: !generatingImage[frame.frame_id] && openFeedbackModal(frame)
OpenFeedbackModal ==
  \E i \in DOMAIN frames :
    /\ i <= MaxClickIndex
    /\ GridUsable
    /\ frames[i].frame_id \notin generatingImage
    /\ ~frames[i].is_placeholder
    /\ selectedFrame' = frames[i].frame_id
    /\ showFeedbackModal' = TRUE
    /\ lastOp' = OtherOp
    /\ UNCHANGED <<project, frames, loading, error, currentPage, totalPages, feedbackText,
                   submittingFeedback, generatingImage, inflight, fetchDataPc, nextImage, serverCount, sbOps>>
    /\ UNCHANGED notSB

ModalUsable == ~loading /\ showFeedbackModal /\ selectedFrame # NoFrame

\* Modal onHide
HideFeedbackModal ==
  /\ ModalUsable
  /\ showFeedbackModal' = FALSE
  /\ lastOp' = OtherOp
  /\ UNCHANGED <<project, frames, loading, error, currentPage, totalPages, selectedFrame,
                 feedbackText, submittingFeedback, generatingImage, inflight, fetchDataPc,
                 nextImage, serverCount, sbOps>>
  /\ UNCHANGED notSB

\* textarea onChange
SetFeedbackText ==
  \E t \in Texts :
    /\ ModalUsable
    /\ t # feedbackText
    /\ feedbackText' = t
    /\ lastOp' = OtherOp
    /\ UNCHANGED <<project, frames, loading, error, currentPage, totalPages, selectedFrame,
                   showFeedbackModal, submittingFeedback, generatingImage, inflight,
                   fetchDataPc, nextImage, serverCount, sbOps>>
    /\ UNCHANGED notSB

\* handleFeedbackSubmit up to the await; the closure keeps selectedFrame, feedbackText and frames
HandleFeedbackSubmit ==
  /\ ModalUsable
  /\ ~submittingFeedback
  /\ Trim(feedbackText) # ""
  /\ sbOps < MaxOps
  /\ sbOps' = sbOps + 1
  /\ submittingFeedback' = TRUE
  /\ inflight' = inflight \cup {Request("feedback", 0, "", selectedFrame, feedbackText, frames)}
  /\ lastOp' = OtherOp
  /\ UNCHANGED <<project, frames, loading, error, currentPage, totalPages, selectedFrame,
                 showFeedbackModal, feedbackText, generatingImage, fetchDataPc, nextImage, serverCount>>
  /\ UNCHANGED notSB

\* handleFeedbackSubmit after the await, the request succeeded
FeedbackOk ==
  \E r \in inflight :
    /\ r.kind = "feedback"
    /\ frames' = ApplyFeedback(r.snap, r.frame_id, <<"generated", nextImage>>, r.text)
    /\ nextImage' = nextImage + 1
    /\ showFeedbackModal' = FALSE
    /\ feedbackText' = ""
    /\ submittingFeedback' = FALSE
    /\ inflight' = inflight \ {r}
    /\ lastOp' = Op("feedbackOk", r.frame_id, <<"generated", nextImage>>, r.text, frames)
    /\ UNCHANGED <<project, loading, error, currentPage, totalPages, selectedFrame,
                   generatingImage, fetchDataPc, serverCount, sbOps>>
    /\ UNCHANGED notSB

\* handleFeedbackSubmit after the await, the request failed: alert, finally
FeedbackFail ==
  \E r \in inflight :
    /\ r.kind = "feedback"
    /\ submittingFeedback' = FALSE
    /\ inflight' = inflight \ {r}
    /\ lastOp' = OtherOp
    /\ UNCHANGED <<project, frames, loading, error, currentPage, totalPages, selectedFrame,
                   showFeedbackModal, feedbackText, generatingImage, fetchDataPc, nextImage, serverCount,
                   sbOps>>
    /\ UNCHANGED notSB

\* handleGenerateImage up to the await; the button exists on frames without image_url
HandleGenerateImage ==
  \E i \in DOMAIN frames :
    /\ i <= MaxClickIndex
    /\ GridUsable
    /\ ~frames[i].is_placeholder
    /\ frames[i].image_url = <<>>
    /\ frames[i].frame_id \notin generatingImage
    /\ sbOps < MaxOps
    /\ sbOps' = sbOps + 1
    /\ generatingImage' = generatingImage \cup {frames[i].frame_id}
    /\ inflight' = inflight \cup {Request("generate", 0, "", frames[i].frame_id, "", frames)}
    /\ lastOp' = OtherOp
    /\ UNCHANGED <<project, frames, loading, error, currentPage, totalPages, selectedFrame,
                   showFeedbackModal, feedbackText, submittingFeedback, fetchDataPc, nextImage, serverCount>>
    /\ UNCHANGED notSB

\* handleGenerateImage after the await; response.data.image_url may be missing
GenerateOk ==
  \E r \in inflight, hasUrl \in BOOLEAN :
    /\ r.kind = "generate"
    /\ IF hasUrl
         THEN /\ frames' = ApplyImage(r.snap, r.frame_id, <<"generated", nextImage>>)
              /\ nextImage' = nextImage + 1
         ELSE UNCHANGED <<frames, nextImage>>
    /\ generatingImage' = generatingImage \ {r.frame_id}
    /\ inflight' = inflight \ {r}
    /\ lastOp' = OtherOp
    /\ UNCHANGED <<project, loading, error, currentPage, totalPages, selectedFrame,
                   showFeedbackModal, feedbackText, submittingFeedback, fetchDataPc,
                   serverCount, sbOps>>
    /\ UNCHANGED notSB

\* handleGenerateImage: the request failed
GenerateFail ==
  \E r \in inflight :
    /\ r.kind = "generate"
    /\ error' = "Failed to generate image. Please try again."
    /\ generatingImage' = generatingImage \ {r.frame_id}
    /\ inflight' = inflight \ {r}
    /\ lastOp' = OtherOp
    /\ UNCHANGED <<project, frames, loading, currentPage, totalPages, selectedFrame,
                   showFeedbackModal, feedbackText, submittingFeedback, fetchDataPc,
                   nextImage, serverCount, sbOps>>
    /\ UNCHANGED notSB

NextSB ==
  \/ FetchDataGetProject
  \/ FetchDataGetPages
  \/ FetchDataGetActors
  \/ FetchDataFail
  \/ FetchFramesOk
  \/ FetchFramesFail
  \/ HandlePageChange
  \/ OpenFeedbackModal
  \/ HideFeedbackModal
  \/ SetFeedbackText
  \/ HandleFeedbackSubmit
  \/ FeedbackOk
  \/ FeedbackFail
  \/ HandleGenerateImage
  \/ GenerateOk
  \/ GenerateFail



(***************************************************************************)
(* FilmSchoolConsultation.js                                               *)
(***************************************************************************)

\* const stages = [...] in updateStageProgress
stages == <<"initial", "character_development", "plot_structure", "visual_style">>

NumStages == Len(stages)

\* stages.indexOf(stage), counted from 1; 0 for "not found"
StageIndex(stage) ==
  IF \E i \in 1..NumStages : stages[i] = stage
    THEN CHOOSE i \in 1..NumStages : stages[i] = stage
    ELSE 0

\* Math.round(((currentIndex + 1) / stages.length) * 100), for the 1-based index
Progress(index) == (index * 100) \div NumStages

\* updateStageProgress(stage): the new stageProgress, given the old one
updateStageProgress(stage, old) ==
  IF StageIndex(stage) >= 1 THEN Progress(StageIndex(stage)) ELSE old

NoEvaluation == <<>>
NoStage == ""

\* values of an answer textarea: cleared, typed, and the suggestion of the server
AnswerTexts == {"", "typed"}
Suggestion == "suggested"

\* the n questions the server generates for a stage
StageQuestions(stageIndex, n) == [i \in 1..n |-> <<stageIndex, i>>]

\* Object.keys(answers).length !== questions.length, negated
AnswerCountMatches(ans, qs) == Cardinality(DOMAIN ans) = Len(qs)

\* questions.map((_, index) => ({question_id: index, answer: answers[index] || ""}))
FormatAnswers(ans, qs) ==
  [i \in 1..Len(qs) |-> IF (i - 1) \in DOMAIN ans THEN ans[i - 1] ELSE ""]

\* setAnswers(prev => ({...prev, [questionIndex]: value}))
SetAnswer(ans, questionIndex, value) ==
  [k \in DOMAIN ans \cup {questionIndex} |-> IF k = questionIndex THEN value ELSE ans[k]]

\* the render shows the question cards: not loading, no evaluation, questions present
QuestionsDisplayed == ~fsLoading /\ evaluation = NoEvaluation /\ questions # <<>>

\* the render shows the evaluation card with the 'Proceed to ...' button
ProceedOffered == ~fsLoading /\ evaluation # NoEvaluation /\ nextStage # NoStage

\* the render shows the 'Consultation Complete!' alert
CompleteShown ==
  ~fsLoading /\ evaluation # NoEvaluation /\ nextStage = NoStage /\ stageProgress >= 100

\* the render shows the 'No Questions Available' card with the 'Create Consultation' button
CreateOffered ==
  ~fsLoading /\ evaluation = NoEvaluation /\ questions = <<>> /\ ~forceCreatingConsultation

\* disabled={submitting || Object.keys(answers).length !== questions.length}, negated
SubmitEnabled == QuestionsDisplayed /\ ~submitting /\ AnswerCountMatches(answers, questions)

\* the useState initial values of FilmSchoolConsultation, fetchProjectAndQuestions about to start
MountedFS ==
  /\ fsProject = FALSE
  /\ questions = <<>>
  /\ answers = <<>>
  /\ evaluation = NoEvaluation
  /\ currentStage = ""
  /\ nextStage = NoStage
  /\ fsLoading = TRUE
  /\ submitting = FALSE
  /\ fsError = NoError
  /\ generatingAnswer = {}
  /\ forceCreatingConsultation = FALSE
  /\ stageProgress = 0
  /\ fsPc = "getProject"
  /\ submitted = <<>>

InitFS ==
  /\ MountedFS
  /\ srvExists \in BOOLEAN
  /\ srvStage \in 1..(NumStages + 1)
  /\ srvExists = FALSE => srvStage = 1

\* FilmSchoolConsultation mounted without a consultation on the server, left alone
ParkedFS == MountedFS /\ srvExists = FALSE /\ srvStage = 1

\* the three setters applied to a response that carries questions and maybe current_stage
\* (current_stage || "initial")
ShowQuestions(stageIndex, n) ==
  /\ questions' = StageQuestions(stageIndex, n)
  /\ currentStage' = stages[stageIndex]
  /\ stageProgress' = updateStageProgress(stages[stageIndex], stageProgress)

\* the questions the server holds for the consultation: none once it is complete
ServerQuestionCounts == IF srvStage <= NumStages THEN 0..MaxQuestions ELSE {0}

\* fetchProjectAndQuestions: getProject resolves
FSGetProject ==
  /\ fsPc = "getProject"
  /\ fsProject' = TRUE
  /\ fsPc' = "getQuestions"
  /\ UNCHANGED <<questions, answers, evaluation, currentStage, nextStage, fsLoading,
                 submitting, fsError, generatingAnswer, forceCreatingConsultation,
                 stageProgress, submitted, srvExists, srvStage>>
  /\ UNCHANGED notFS

\* fetchProjectAndQuestions: getProject rejects
FSGetProjectFail ==
  /\ fsPc = "getProject"
  /\ fsError' = "Failed to load project details. Please try again."
  /\ fsLoading' = FALSE
  /\ fsPc' = "idle"
  /\ UNCHANGED <<fsProject, questions, answers, evaluation, currentStage, nextStage,
                 submitting, generatingAnswer, forceCreatingConsultation, stageProgress,
                 submitted, srvExists, srvStage>>
  /\ UNCHANGED notFS

\* fetchProjectAndQuestions: getProjectQuestions resolves
FSGetQuestions ==
  \E n \in ServerQuestionCounts :
    /\ fsPc = "getQuestions"
    /\ srvExists
    /\ IF n > 0
         THEN ShowQuestions(srvStage, n)
         ELSE /\ questions' = <<>>
              /\ currentStage' = "initial"
              /\ stageProgress' = 25
    /\ fsLoading' = FALSE
    /\ fsPc' = "idle"
    /\ UNCHANGED <<fsProject, answers, evaluation, nextStage, submitting, fsError,
                   generatingAnswer, forceCreatingConsultation, submitted, srvExists,
                   srvStage>>
    /\ UNCHANGED notFS

\* fetchProjectAndQuestions: getProjectQuestions rejects with 404 or without a response
FSGetQuestionsNotFound ==
  /\ fsPc = "getQuestions"
  /\ forceCreatingConsultation' = TRUE
  /\ fsPc' = "create"
  /\ UNCHANGED <<fsProject, questions, answers, evaluation, currentStage, nextStage,
                 fsLoading, submitting, fsError, generatingAnswer, stageProgress,
                 submitted, srvExists, srvStage>>
  /\ UNCHANGED notFS

\* fetchProjectAndQuestions: getProjectQuestions rejects with another status
FSGetQuestionsFail ==
  /\ fsPc = "getQuestions"
  /\ srvExists
  /\ fsError' = "Failed to load consultation questions. Please try again."
  /\ fsLoading' = FALSE
  /\ fsPc' = "idle"
  /\ UNCHANGED <<fsProject, questions, answers, evaluation, currentStage, nextStage,
                 submitting, generatingAnswer, forceCreatingConsultation, stageProgress,
                 submitted, srvExists, srvStage>>
  /\ UNCHANGED notFS

\* fetchProjectAndQuestions: createProject resolves; the server starts a consultation
FSCreate ==
  \E n \in 0..MaxQuestions :
    /\ fsPc = "create"
    /\ srvExists' = TRUE
    /\ srvStage' = 1
    /\ IF n > 0
         THEN /\ ShowQuestions(1, n)
              /\ forceCreatingConsultation' = FALSE
              /\ fsLoading' = FALSE
              /\ fsPc' = "idle"
         ELSE /\ fsPc' = "retry"
              /\ UNCHANGED <<questions, currentStage, stageProgress,
                             forceCreatingConsultation, fsLoading>>
    /\ UNCHANGED <<fsProject, answers, evaluation, nextStage, submitting, fsError,
                   generatingAnswer, submitted>>
    /\ UNCHANGED notFS

\* fetchProjectAndQuestions: createProject rejects
FSCreateFail ==
  /\ fsPc = "create"
  /\ fsError' = "Failed to create new consultation. Please try again."
  /\ forceCreatingConsultation' = FALSE
  /\ fsLoading' = FALSE
  /\ fsPc' = "idle"
  /\ UNCHANGED <<fsProject, questions, answers, evaluation, currentStage, nextStage,
                 submitting, generatingAnswer, stageProgress, submitted, srvExists,
                 srvStage>>
  /\ UNCHANGED notFS

\* fetchProjectAndQuestions: the second getProjectQuestions, after a create without questions
FSRetry ==
  \E n \in ServerQuestionCounts, ok \in BOOLEAN :
    /\ fsPc = "retry"
    /\ IF ok /\ n > 0
         THEN ShowQuestions(srvStage, n) /\ UNCHANGED fsError
         ELSE /\ fsError' = "Created consultation but couldn't retrieve questions. Please try again."
              /\ UNCHANGED <<questions, currentStage, stageProgress>>
    /\ forceCreatingConsultation' = FALSE
    /\ fsLoading' = FALSE
    /\ fsPc' = "idle"
    /\ UNCHANGED <<fsProject, answers, evaluation, nextStage, submitting,
                   generatingAnswer, submitted, srvExists, srvStage>>
    /\ UNCHANGED notFS

\* textarea onChange -> handleAnswerChange(index, e.target.value)
HandleAnswerChange ==
  \E i \in 0..(Len(questions) - 1), v \in AnswerTexts :
    /\ fsPc \in {"idle", "submit"}
    /\ QuestionsDisplayed
    /\ v # (IF i \in DOMAIN answers THEN answers[i] ELSE "")
    /\ answers' = SetAnswer(answers, i, v)
    /\ UNCHANGED <<fsProject, questions, evaluation, currentStage, nextStage, fsLoading,
                   submitting, fsError, generatingAnswer, forceCreatingConsultation,
                   stageProgress, fsPc, submitted, srvExists, srvStage>>
    /\ UNCHANGED notFS

\* generateAnswerSuggestion(index) up to the await
GenerateAnswerSuggestion ==
  \E i \in 0..(Len(questions) - 1) :
    /\ QuestionsDisplayed
    /\ i \notin generatingAnswer
    /\ generatingAnswer' = generatingAnswer \cup {i}
    /\ UNCHANGED <<fsProject, questions, answers, evaluation, currentStage, nextStage,
                   fsLoading, submitting, fsError, forceCreatingConsultation,
                   stageProgress, fsPc, submitted, srvExists, srvStage>>
    /\ UNCHANGED notFS

\* generateAnswerSuggestion after the await
SuggestionArrives ==
  \E i \in generatingAnswer, outcome \in {"suggestion", "empty", "error"} :
    /\ answers' = IF outcome = "suggestion" THEN SetAnswer(answers, i, Suggestion) ELSE answers
    /\ fsError' = IF outcome = "error"
                    THEN "Failed to generate answer suggestion. Please try again."
                    ELSE fsError
    /\ generatingAnswer' = generatingAnswer \ {i}
    /\ UNCHANGED <<fsProject, questions, evaluation, currentStage, nextStage, fsLoading,
                   submitting, forceCreatingConsultation, stageProgress, fsPc, submitted,
                   srvExists, srvStage>>
    /\ UNCHANGED notFS

\* guard of handleSubmitAnswers: true when the handler goes on to send the request
SubmitGuard(ans, qs) == AnswerCountMatches(ans, qs)

\* handleSubmitAnswers up to the await, reached through the 'Submit Answers' button
HandleSubmitAnswers ==
  /\ fsPc = "idle"
  /\ SubmitEnabled
  /\ SubmitGuard(answers, questions)
  /\ submitting' = TRUE
  /\ fsError' = NoError
  /\ submitted' = FormatAnswers(answers, questions)
  /\ fsPc' = "submit"
  /\ UNCHANGED <<fsProject, questions, answers, evaluation, currentStage, nextStage,
                 fsLoading, generatingAnswer, forceCreatingConsultation, stageProgress,
                 srvExists, srvStage>>
  /\ UNCHANGED notFS

\* handleSubmitAnswers after the await: the server stores the answers, evaluates them and
\* moves on to the next stage; it answers with the next questions, or with the name of the
\* next stage only, or with neither once the last stage is done
SubmitOk ==
  \E hasEvaluation \in BOOLEAN, mode \in {"questions", "stage"}, n \in 0..MaxQuestions :
    /\ fsPc = "submit"
    /\ srvStage <= NumStages
    /\ srvStage' = srvStage + 1
    /\ evaluation' = IF hasEvaluation THEN <<"evaluation", srvStage>> ELSE evaluation
    /\ IF srvStage < NumStages /\ mode = "questions"
         THEN /\ ShowQuestions(srvStage + 1, n)
              /\ answers' = <<>>
              /\ nextStage' = NoStage
         ELSE IF srvStage < NumStages
           THEN /\ n = 0
                /\ nextStage' = stages[srvStage + 1]
                /\ questions' = <<>>
                /\ UNCHANGED <<answers, currentStage, stageProgress>>
           ELSE /\ n = 0 /\ mode = "stage"
                /\ questions' = <<>>
                /\ nextStage' = NoStage
                /\ UNCHANGED <<answers, currentStage, stageProgress>>
    /\ submitting' = FALSE
    /\ fsPc' = "idle"
    /\ UNCHANGED <<fsProject, fsLoading, fsError, generatingAnswer,
                   forceCreatingConsultation, submitted, srvExists>>
    /\ UNCHANGED notFS

\* handleSubmitAnswers: the request rejects
SubmitFail ==
  /\ fsPc = "submit"
  /\ fsError' = "Failed to submit answers"
  /\ submitting' = FALSE
  /\ fsPc' = "idle"
  /\ UNCHANGED <<fsProject, questions, answers, evaluation, currentStage, nextStage,
                 fsLoading, generatingAnswer, forceCreatingConsultation, stageProgress,
                 submitted, srvExists, srvStage>>
  /\ UNCHANGED notFS

\* proceedToNextStage up to the await
ProceedToNextStage ==
  /\ fsPc = "idle"
  /\ ProceedOffered
  /\ fsLoading' = TRUE
  /\ fsError' = NoError
  /\ currentStage' = nextStage
  /\ evaluation' = NoEvaluation
  /\ stageProgress' = updateStageProgress(nextStage, stageProgress)
  /\ fsPc' = "proceed"
  /\ UNCHANGED <<fsProject, questions, answers, nextStage, submitting, generatingAnswer,
                 forceCreatingConsultation, submitted, srvExists, srvStage>>
  /\ UNCHANGED notFS

\* proceedToNextStage after the await
ProceedArrives ==
  \E n \in ServerQuestionCounts, ok \in BOOLEAN :
    /\ fsPc = "proceed"
    /\ IF ok /\ n > 0
         THEN /\ questions' = StageQuestions(srvStage, n)
              /\ UNCHANGED fsError
         ELSE /\ questions' = <<>>
              /\ fsError' = IF ok THEN "No questions available for the stage."
                                  ELSE "Failed to load questions for the stage."
    /\ nextStage' = NoStage
    /\ fsLoading' = FALSE
    /\ fsPc' = "idle"
    /\ UNCHANGED <<fsProject, answers, evaluation, currentStage, submitting,
                   generatingAnswer, forceCreatingConsultation, stageProgress, submitted,
                   srvExists, srvStage>>
    /\ UNCHANGED notFS

\* handleForceCreateConsultation up to the await, or to its early return without a project
HandleForceCreateConsultation ==
  /\ fsPc = "idle"
  /\ CreateOffered
  /\ IF fsProject
       THEN /\ forceCreatingConsultation' = TRUE
            /\ fsError' = NoError
            /\ fsPc' = "forceCreate"
       ELSE /\ fsError' = "Project data not available"
            /\ UNCHANGED <<forceCreatingConsultation, fsPc>>
  /\ UNCHANGED <<fsProject, questions, answers, evaluation, currentStage, nextStage,
                 fsLoading, submitting, generatingAnswer, stageProgress, submitted,
                 srvExists, srvStage>>
  /\ UNCHANGED notFS

\* handleForceCreateConsultation: createProject resolves or rejects
ForceCreateArrives ==
  \E n \in 0..MaxQuestions, ok \in BOOLEAN :
    /\ fsPc = "forceCreate"
    /\ IF ok
         THEN /\ srvExists' = TRUE
              /\ srvStage' = 1
              /\ UNCHANGED fsError
              /\ IF n > 0
                   THEN /\ ShowQuestions(1, n)
                        /\ forceCreatingConsultation' = FALSE
                        /\ fsPc' = "idle"
                   ELSE /\ fsPc' = "forceGet"
                        /\ UNCHANGED <<questions, currentStage, stageProgress,
                                       forceCreatingConsultation>>
         ELSE /\ n = 0
              /\ fsError' = "Failed to create new consultation. Please try again."
              /\ forceCreatingConsultation' = FALSE
              /\ fsPc' = "idle"
              /\ UNCHANGED <<questions, currentStage, stageProgress, srvExists, srvStage>>
    /\ UNCHANGED <<fsProject, answers, evaluation, nextStage, fsLoading, submitting,
                   generatingAnswer, submitted>>
    /\ UNCHANGED notFS

\* handleForceCreateConsultation: the getProjectQuestions after a create without questions
ForceGetArrives ==
  \E n \in ServerQuestionCounts, ok \in BOOLEAN :
    /\ fsPc = "forceGet"
    /\ IF ok /\ n > 0
         THEN ShowQuestions(srvStage, n) /\ UNCHANGED fsError
         ELSE /\ fsError' = "Created consultation but couldn't retrieve questions. Please try reloading the page."
              /\ UNCHANGED <<questions, currentStage, stageProgress>>
    /\ forceCreatingConsultation' = FALSE
    /\ fsPc' = "idle"
    /\ UNCHANGED <<fsProject, answers, evaluation, nextStage, fsLoading, submitting,
                   generatingAnswer, submitted, srvExists, srvStage>>
    /\ UNCHANGED notFS

\* Alert onClose={() => setError(null)}
DismissError ==
  /\ ~fsLoading
  /\ fsError # NoError
  /\ fsError' = NoError
  /\ UNCHANGED <<fsProject, questions, answers, evaluation, currentStage, nextStage,
                 fsLoading, submitting, generatingAnswer, forceCreatingConsultation,
                 stageProgress, fsPc, submitted, srvExists, srvStage>>
  /\ UNCHANGED notFS

NextFS ==
  \/ FSGetProject
  \/ FSGetProjectFail
  \/ FSGetQuestions
  \/ FSGetQuestionsNotFound
  \/ FSGetQuestionsFail
  \/ FSCreate
  \/ FSCreateFail
  \/ FSRetry
  \/ HandleAnswerChange
  \/ GenerateAnswerSuggestion
  \/ SuggestionArrives
  \/ HandleSubmitAnswers
  \/ SubmitOk
  \/ SubmitFail
  \/ ProceedToNextStage
  \/ ProceedArrives
  \/ HandleForceCreateConsultation
  \/ ForceCreateArrives
  \/ ForceGetArrives
  \/ DismissError


(***************************************************************************)
(* ProjectList.js and ActorList.js: list and delete                        *)
(***************************************************************************)

ListPages == {"projects", "actors"}

\* the project_ids / actor names that exist when the pages are opened
Items == 1..MaxItems

SendsDeleteUnasked(answer) == TRUE

\* if (window.confirm(...)) in handleDeleteProject and handleDeleteActor:
\* TRUE when the handler goes on to send the delete request
SendsDelete(answer) == answer

ListRequest(kind, page, id) == [kind |-> kind, page |-> page, id |-> id]

\* both pages after construction: nothing listed, the first fetch of each page under way
MountedLists ==
  /\ items = [p \in ListPages |-> {}]
  /\ listLoading = [p \in ListPages |-> TRUE]
  /\ listError = [p \in ListPages |-> NoError]
  /\ listInflight = {ListRequest("fetch", p, 0) : p \in ListPages}
  /\ confirmedDeletes = {}
  /\ sentDeletes = {}
  /\ listOp = <<"mount", "", 0>>

InitLists == MountedLists /\ srvItems = [p \in ListPages |-> Items]

ParkedLists == MountedLists /\ srvItems = [p \in ListPages |-> {}]

\* fetchProjects / fetchActors after the await, the request succeeded
FetchListOk ==
  \E r \in listInflight :
    /\ r.kind = "fetch"
    /\ items' = [items EXCEPT ![r.page] = srvItems[r.page]]
    /\ listError' = [listError EXCEPT ![r.page] = NoError]
    /\ listLoading' = [listLoading EXCEPT ![r.page] = FALSE]
    /\ listInflight' = listInflight \ {r}
    /\ listOp' = <<"fetchOk", r.page, 0>>
    /\ UNCHANGED <<srvItems, confirmedDeletes, sentDeletes>>
    /\ UNCHANGED notLists

\* fetchProjects / fetchActors after the await, the request failed
FetchListFail ==
  \E r \in listInflight :
    /\ r.kind = "fetch"
    /\ listError' = [listError EXCEPT ![r.page] = "Failed to load. Please try again later."]
    /\ listLoading' = [listLoading EXCEPT ![r.page] = FALSE]
    /\ listInflight' = listInflight \ {r}
    /\ listOp' = <<"fetchFail", r.page, 0>>
    /\ UNCHANGED <<items, srvItems, confirmedDeletes, sentDeletes>>
    /\ UNCHANGED notLists

\* handleDeleteProject(projectId): the confirmation dialog and, if the handler goes on,
\* the delete request
HandleDeleteProject ==
  \E id \in Items, answer \in BOOLEAN :
    /\ ~listLoading["projects"]
    /\ id \in items["projects"]
    /\ confirmedDeletes' = IF answer THEN confirmedDeletes \cup {<<"projects", id>>}
                                     ELSE confirmedDeletes
    /\ IF SendsDelete(answer)
         THEN /\ listInflight' = listInflight \cup {ListRequest("delete", "projects", id)}
              /\ sentDeletes' = sentDeletes \cup {<<"projects", id>>}
         ELSE UNCHANGED <<listInflight, sentDeletes>>
    /\ listOp' = <<IF answer THEN "accept" ELSE "cancel", "projects", id>>
    /\ UNCHANGED <<items, listLoading, listError, srvItems>>
    /\ UNCHANGED notLists

\* handleDeleteActor(actorName): the confirmation dialog and, if the handler goes on,
\* the delete request
HandleDeleteActor ==
  \E id \in Items, answer \in BOOLEAN :
    /\ ~listLoading["actors"]
    /\ id \in items["actors"]
    /\ confirmedDeletes' = IF answer THEN confirmedDeletes \cup {<<"actors", id>>}
                                     ELSE confirmedDeletes
    /\ IF SendsDelete(answer)
         THEN /\ listInflight' = listInflight \cup {ListRequest("delete", "actors", id)}
              /\ sentDeletes' = sentDeletes \cup {<<"actors", id>>}
         ELSE UNCHANGED <<listInflight, sentDeletes>>
    /\ listOp' = <<IF answer THEN "accept" ELSE "cancel", "actors", id>>
    /\ UNCHANGED <<items, listLoading, listError, srvItems>>
    /\ UNCHANGED notLists

\* the delete request succeeded: the handler refreshes the list (fetchProjects / fetchActors)
DeleteOk ==
  \E r \in listInflight :
    /\ r.kind = "delete"
    /\ r.id \in srvItems[r.page]
    /\ srvItems' = [srvItems EXCEPT ![r.page] = @ \ {r.id}]
    /\ listLoading' = [listLoading EXCEPT ![r.page] = TRUE]
    /\ listError' = IF r.page = "actors" THEN [listError EXCEPT ![r.page] = NoError]
                                         ELSE listError
    /\ listInflight' = (listInflight \ {r}) \cup {ListRequest("fetch", r.page, 0)}
    /\ listOp' = <<"deleteOk", r.page, r.id>>
    /\ UNCHANGED <<items, confirmedDeletes, sentDeletes>>
    /\ UNCHANGED notLists

\* the delete request failed: ProjectList sets its error, ActorList raises an alert
DeleteFail ==
  \E r \in listInflight :
    /\ r.kind = "delete"
    /\ listError' = IF r.page = "projects"
                      THEN [listError EXCEPT ![r.page] = "Failed to delete project. Please try again later."]
                      ELSE listError
    /\ listInflight' = listInflight \ {r}
    /\ listOp' = <<"deleteFail", r.page, r.id>>
    /\ UNCHANGED <<items, listLoading, srvItems, confirmedDeletes, sentDeletes>>
    /\ UNCHANGED notLists

NextLists ==
  \/ FetchListOk
  \/ FetchListFail
  \/ HandleDeleteProject
  \/ HandleDeleteActor
  \/ DeleteOk
  \/ DeleteFail

(***************************************************************************)
(* CreateProject.js                                                        *)
(***************************************************************************)

Titles == {"", "Heist"}
Descriptions == {"", "a short film"}
Scripts == {"", "Frame 1: ..."}

FormPath == [page |-> "create", project_id |-> 0]

\* `/projects/${response.data.project_id}`
DetailPath(project_id) == [page |-> "detail", project_id |-> project_id]

AfterCreateAlwaysNavigates(ok, project_id) == DetailPath(project_id)

\* where handleSubmit leaves the router once the create request has settled
AfterCreate(ok, project_id) == IF ok THEN DetailPath(project_id) ELSE FormPath

\* the error handleSubmit leaves once the create request has settled:
\* setError(null) before the request, setError(detail || 'Failed to create project') in catch
ErrorAfterCreate(ok, detail) ==
  IF ok THEN NoError
  ELSE IF detail # "" THEN detail ELSE "Failed to create project"

MountedCreate ==
  /\ formData = [title |-> "", description |-> "", script |-> ""]
  /\ isSubmitting = FALSE
  /\ cpError = NoError
  /\ location = FormPath
  /\ createPending = FALSE
  /\ srvCreated = 0
  /\ cpLast = [kind |-> "mount", project_id |-> 0, form |-> <<>>]

InitCreate == MountedCreate

ParkedCreate == MountedCreate

OnForm == location = FormPath

\* handleChange for the three inputs
HandleChange ==
  \E t \in Titles, d \in Descriptions, sc \in Scripts :
    /\ OnForm
    /\ \/ formData' = [formData EXCEPT !.title = t]
       \/ formData' = [formData EXCEPT !.description = d]
       \/ formData' = [formData EXCEPT !.script = sc]
    /\ formData' # formData
    /\ cpLast' = [kind |-> "change", project_id |-> 0, form |-> <<>>]
    /\ UNCHANGED <<isSubmitting, cpError, location, createPending, srvCreated>>
    /\ UNCHANGED notCreate

\* handleSubmit up to the await; the title input is `required`, the button disabled while submitting
HandleSubmit ==
  /\ OnForm
  /\ ~isSubmitting
  /\ formData.title # ""
  /\ srvCreated < MaxCreated
  /\ isSubmitting' = TRUE
  /\ cpError' = NoError
  /\ createPending' = TRUE
  /\ cpLast' = [kind |-> "submit", project_id |-> 0, form |-> <<>>]
  /\ UNCHANGED <<formData, location, srvCreated>>
  /\ UNCHANGED notCreate

\* handleSubmit after the await: the server created the project, or rejected the request
\* with or without a detail
CreateSettles ==
  \E ok \in BOOLEAN, detail \in {"", "Title already used"} :
    /\ createPending
    /\ ok => detail = ""
    /\ createPending' = FALSE
    /\ srvCreated' = IF ok THEN srvCreated + 1 ELSE srvCreated
    /\ location' = AfterCreate(ok, srvCreated + 1)
    /\ cpError' = ErrorAfterCreate(ok, detail)
    /\ isSubmitting' = FALSE
    /\ cpLast' = [kind |-> IF ok THEN "created" ELSE "failed",
                  project_id |-> IF ok THEN srvCreated + 1 ELSE 0,
                  form |-> formData]
    /\ UNCHANGED formData
    /\ UNCHANGED notCreate

\* Alert onClose={() => setError(null)}
DismissCreateError ==
  /\ OnForm
  /\ cpError # NoError
  /\ cpError' = NoError
  /\ cpLast' = [kind |-> "dismiss", project_id |-> 0, form |-> <<>>]
  /\ UNCHANGED <<formData, isSubmitting, location, createPending, srvCreated>>
  /\ UNCHANGED notCreate

\* the user opens the create form again from the project detail page
OpenCreateForm ==
  /\ ~OnForm
  /\ formData' = [title |-> "", description |-> "", script |-> ""]
  /\ isSubmitting' = FALSE
  /\ cpError' = NoError
  /\ location' = FormPath
  /\ cpLast' = [kind |-> "mount", project_id |-> 0, form |-> <<>>]
  /\ UNCHANGED <<createPending, srvCreated>>
  /\ UNCHANGED notCreate

NextCreate ==
  \/ HandleChange
  \/ HandleSubmit
  \/ CreateSettles
  \/ DismissCreateError
  \/ OpenCreateForm

(***************************************************************************)
(* run_app.sh and backend/main.py: which MongoDB the local backend uses    *)
(***************************************************************************)

\* an environment variable that is not set, a line that backend/config/.env does not have
Unset == ""

EnvNames == {"MONGODB_URI", "MONGODB_URI_LOCAL", "MONGODB_URI_DOCKER", "DOCKER_ENV"}

\* export MONGODB_URI="mongodb+srv://...cluster0..." in run_app.sh, and the value in
\* docker-compose.yml
AtlasUri == "mongodb+srv://cluster0/storyboardai_db"

\* what the user may have written into backend/config/.env, per variable
DotenvChoices ==
  [MONGODB_URI |-> {Unset, "mongodb://localhost:27017/storyboardai", AtlasUri},
   MONGODB_URI_LOCAL |-> {Unset, "mongodb://localhost:27018/dev"},
   MONGODB_URI_DOCKER |-> {Unset},
   DOCKER_ENV |-> {Unset, "true"}]

DotenvFiles ==
  {f \in [EnvNames -> UNION {DotenvChoices[n] : n \in EnvNames}] :
     \A n \in EnvNames : f[n] \in DotenvChoices[n]}

\* export $(cat ./backend/config/.env | grep -v '#' | sed 's/\r$//' | awk '/=/ {print $1}'):
\* every NAME=value line of the file becomes a variable of the script's environment
ExportDotenv(env, file) == [n \in EnvNames |-> IF file[n] # Unset THEN file[n] ELSE env[n]]

\* load_dotenv("config/.env") in main.py: variables already in the environment are kept
load_dotenv(env, file) == [n \in EnvNames |-> IF env[n] # Unset THEN env[n] ELSE file[n]]

\* os.getenv(name, default)
getenv(env, name, default) == IF env[name] # Unset THEN env[name] ELSE default

\* main.py: mongodb_uri = os.getenv("MONGODB_URI"); if not mongodb_uri: the docker or the
\* local fallback
SelectMongoUri(env) ==
  IF env["MONGODB_URI"] # Unset
    THEN env["MONGODB_URI"]
    ELSE IF env["DOCKER_ENV"] = "true"
           THEN getenv(env, "MONGODB_URI_DOCKER", "mongodb://mongo:27017/storyboard")
           ELSE getenv(env, "MONGODB_URI_LOCAL", "mongodb://localhost:27017/storyboard")

\* the export lines of run_app.sh between the symlinks and the backend start
ScriptedExports(env) == [env EXCEPT !["MONGODB_URI"] = AtlasUri, !["DOCKER_ENV"] = "false"]

RequiredDirs == {"generated_images", "actor_images", "frame_images", "exports"}

\* run_app.sh about to run its first line
StartedRun ==
  /\ runPc = "loadEnv"
  /\ shEnv = [n \in EnvNames |-> Unset]
  /\ createdDirs = {}
  /\ linkedDirs = {}
  /\ backendUri = Unset
  /\ backendIn = "none"
  /\ frontendUp = FALSE

InitRun ==
  /\ StartedRun
  /\ dotenvExists \in BOOLEAN
  /\ dotenvFile \in DotenvFiles
  /\ dockerFound \in BOOLEAN
  /\ useDocker \in BOOLEAN

ParkedRun ==
  /\ StartedRun
  /\ dotenvExists = FALSE
  /\ dotenvFile = [n \in EnvNames |-> Unset]
  /\ dockerFound = FALSE
  /\ useDocker = FALSE

runInputs == <<dotenvExists, dotenvFile, dockerFound, useDocker>>

\* if [ -f ./backend/config/.env ]; then export ...; fi
LoadEnv ==
  /\ runPc = "loadEnv"
  /\ shEnv' = IF dotenvExists THEN ExportDotenv(shEnv, dotenvFile) ELSE shEnv
  /\ runPc' = "dockerCheck"
  /\ UNCHANGED <<createdDirs, linkedDirs, backendUri, backendIn, frontendUp, runInputs>>
  /\ UNCHANGED notRun

\* docker and docker-compose found and the user answers y: docker-compose up; exit 0
DockerComposeUp ==
  /\ runPc = "dockerCheck"
  /\ dockerFound /\ useDocker
  /\ backendIn' = "docker"
  /\ backendUri' = AtlasUri
  /\ frontendUp' = TRUE
  /\ runPc' = "exit"
  /\ UNCHANGED <<shEnv, createdDirs, linkedDirs, runInputs>>
  /\ UNCHANGED notRun

\* docker not found or declined: mkdir -p of the four directories
MakeDirs ==
  /\ runPc = "dockerCheck"
  /\ ~(dockerFound /\ useDocker)
  /\ createdDirs' = RequiredDirs
  /\ runPc' = "link"
  /\ UNCHANGED <<shEnv, linkedDirs, backendUri, backendIn, frontendUp, runInputs>>
  /\ UNCHANGED notRun

\* ln -sf of the four directories into backend/
LinkDirs ==
  /\ runPc = "link"
  /\ linkedDirs' = createdDirs
  /\ runPc' = "export"
  /\ UNCHANGED <<shEnv, createdDirs, backendUri, backendIn, frontendUp, runInputs>>
  /\ UNCHANGED notRun

\* export MONGODB_URI=...; export DOCKER_ENV=false
ExportMongo ==
  /\ runPc = "export"
  /\ shEnv' = ScriptedExports(shEnv)
  /\ runPc' = "backend"
  /\ UNCHANGED <<createdDirs, linkedDirs, backendUri, backendIn, frontendUp, runInputs>>
  /\ UNCHANGED notRun

\* cd backend; python3 main.py & : main.py reads config/.env and picks its MongoDB URI
StartBackend ==
  /\ runPc = "backend"
  /\ backendUri' = SelectMongoUri(IF dotenvExists THEN load_dotenv(shEnv, dotenvFile) ELSE shEnv)
  /\ backendIn' = "local"
  /\ runPc' = "frontend"
  /\ UNCHANGED <<shEnv, createdDirs, linkedDirs, frontendUp, runInputs>>
  /\ UNCHANGED notRun

\* cd ../frontend; npm start
StartFrontend ==
  /\ runPc = "frontend"
  /\ frontendUp' = TRUE
  /\ runPc' = "serving"
  /\ UNCHANGED <<shEnv, createdDirs, linkedDirs, backendUri, backendIn, runInputs>>
  /\ UNCHANGED notRun

NextRun ==
  \/ LoadEnv
  \/ DockerComposeUp
  \/ MakeDirs
  \/ LinkDirs
  \/ ExportMongo
  \/ StartBackend
  \/ StartFrontend

(***************************************************************************)
(* services/api.js: utils.formatImageUrl                                   *)
(* A string is the sequence of its tokens: an origin, a slash, a directory *)
(* or route name, a file name.                                             *)
(***************************************************************************)

LocalOrigin == "http://localhost:8000"
DeployedOrigin == "https://your-backend.onrender.com"
CdnOrigin == "https://cdn.example.com"

\* the tokens that begin with 'http'
Origins == {LocalOrigin, DeployedOrigin, CdnOrigin}

\* the directories the backend stores images in, and the routes main.py mounts them at
StorageDirs == {"actor_images", "frame_images", "generated_images"}
StaticRoutes == {"actor-images", "frame-images", "images"}

PathTokens == {"/", "a.png"} \cup StorageDirs \cup StaticRoutes

\* the image_url values a component may pass
ImageUrls ==
  UNION {[1..k -> PathTokens] : k \in 0..MaxUrlLen}
    \cup {<<CdnOrigin>> \o u : u \in UNION {[1..k -> PathTokens] : k \in 0..MaxAbsLen}}

\* process.env.REACT_APP_API_URL: not set, as in docker-compose.yml, as in the deployment guide
ApiUrlSettings == {<<>>, <<LocalOrigin>>, <<DeployedOrigin, "/", "api">>}

\* the null that formatImageUrl returns
Null == <<"null">>

\* String.prototype.startsWith
StartsWith(u, pat) == Len(u) >= Len(pat) /\ SubSeq(u, 1, Len(pat)) = pat

\* imageUrl.startsWith('http')
StartsWithHttp(u) == u # <<>> /\ u[1] \in Origins

\* the positions at which pat occurs in u
Occurrences(u, pat) == {i \in 1..(Len(u) - Len(pat) + 1) : SubSeq(u, i, i + Len(pat) - 1) = pat}

Min(S) == CHOOSE x \in S : \A y \in S : x <= y

\* String.prototype.includes
Includes(u, pat) == Occurrences(u, pat) # {}

\* u.split(pat)[1] for a u that includes pat: what lies between the first occurrence of pat
\* and the next one, or the end
SplitSecond(u, pat) ==
  LET first == Min(Occurrences(u, pat))
      rest == SubSeq(u, first + Len(pat), Len(u))
  IN IF Includes(rest, pat)
       THEN SubSeq(rest, 1, Min(Occurrences(rest, pat)) - 1)
       ELSE rest

\* utils.formatImageUrl(imageUrl) with process.env.REACT_APP_API_URL = apiUrl
formatImageUrl(imageUrl, apiUrl) ==
  LET baseUrl == IF apiUrl # <<>> THEN apiUrl ELSE <<LocalOrigin>>
  IN IF imageUrl = <<>> THEN Null
     ELSE IF StartsWithHttp(imageUrl) THEN imageUrl
     ELSE IF Includes(imageUrl, <<"actor_images", "/">>)
       THEN baseUrl \o <<"/", "actor-images", "/">> \o SplitSecond(imageUrl, <<"actor_images", "/">>)
     ELSE IF StartsWith(imageUrl, <<"/", "actor-images", "/">>)
             \/ StartsWith(imageUrl, <<"actor-images", "/">>)
       THEN baseUrl \o (IF StartsWith(imageUrl, <<"/">>) THEN <<>> ELSE <<"/">>) \o imageUrl
     ELSE IF Includes(imageUrl, <<"frame_images", "/">>)
       THEN baseUrl \o <<"/", "frame-images", "/">> \o SplitSecond(imageUrl, <<"frame_images", "/">>)
     ELSE IF StartsWith(imageUrl, <<"/", "images", "/">>)
             \/ StartsWith(imageUrl, <<"/", "frame-images", "/">>)
       THEN baseUrl \o imageUrl
     ELSE baseUrl \o (IF StartsWith(imageUrl, <<"/">>) THEN imageUrl ELSE <<"/">> \o imageUrl)

\* main.py: app.mount("/images", ...), app.mount("/actor-images", ...),
\* app.mount("/frame-images", ...): url names a file below a static route of the backend at origin
ServedStatic(url, origin) ==
  \E r \in StaticRoutes :
    /\ StartsWith(url, <<origin, "/", r, "/">>)
    /\ Len(url) > 4

\* the backend's own URL for a setting of REACT_APP_API_URL
BackendOrigin(apiUrl) == IF apiUrl # <<>> THEN apiUrl[1] ELSE LocalOrigin

\* a component about to render an image
RenderingImage ==
  /\ urlPc = "render"
  /\ formatted = <<>>

InitUrl ==
  /\ RenderingImage
  /\ image_url \in ImageUrls
  /\ envApiUrl \in ApiUrlSettings

ParkedUrl ==
  /\ RenderingImage
  /\ image_url = <<>>
  /\ envApiUrl = <<>>

\* src={utils.formatImageUrl(image_url)}
FormatImageUrl ==
  /\ urlPc = "render"
  /\ formatted' = formatImageUrl(image_url, envApiUrl)
  /\ urlPc' = "shown"
  /\ UNCHANGED <<image_url, envApiUrl>>
  /\ UNCHANGED notUrl

NextUrl == FormatImageUrl

(***************************************************************************)
(* ActorDetail.js and actorsAPI.updateActor                                *)
(***************************************************************************)

TextFields == {"description", "prompt_hint", "feedback_notes"}

\* new_image: null
NoFile == ""

DescriptionValues == {"", "a tall detective"}
PromptHintValues == {"", "noir lighting"}
FeedbackValues == {"Make the character look older", "warmer colours"}
Files == {"portrait.png"}

\* a value an `if (value)` takes as false
Falsy(v) == v = ""

\* the text fields updateActor appends to the FormData
FormDataFields(actorData) == {k \in TextFields \cap DOMAIN actorData : ~Falsy(actorData[k])}

\* the text fields left in the JSON body once the undefined ones are deleted
JsonFields(actorData) == TextFields \cap DOMAIN actorData

\* actorsAPI.updateActor(actorName, actorData): the body of the PUT request
updateActor(actorData) ==
  IF "new_image" \in DOMAIN actorData /\ actorData["new_image"] # NoFile
    THEN [format |-> "multipart/form-data",
          body |-> [k \in FormDataFields(actorData) \cup {"new_image"} |-> actorData[k]]]
    ELSE [format |-> "application/json",
          body |-> [k \in JsonFields(actorData) |-> actorData[k]]]

NoPut == [format |-> "none", body |-> <<>>]

\* ActorDetail once fetchActorData has filled the edit form from the stored actor
LoadedActor ==
  /\ showEditModal = FALSE
  /\ editLoading = FALSE
  /\ editError = NoError
  /\ putData = <<>>
  /\ lastPut = NoPut
  /\ putPending = FALSE

InitActor ==
  /\ LoadedActor
  /\ \E d \in DescriptionValues, h \in PromptHintValues :
       editFormData = [description |-> d, prompt_hint |-> h, new_image |-> NoFile]

ParkedActor ==
  /\ LoadedActor
  /\ editFormData = [description |-> "", prompt_hint |-> "", new_image |-> NoFile]

\* the Edit button: setShowEditModal(true)
OpenEditModal ==
  /\ ~showEditModal
  /\ showEditModal' = TRUE
  /\ UNCHANGED <<editFormData, editLoading, editError, putData, lastPut, putPending>>
  /\ UNCHANGED notActor

\* Modal onHide and the Cancel button: setShowEditModal(false)
HideEditModal ==
  /\ showEditModal
  /\ showEditModal' = FALSE
  /\ UNCHANGED <<editFormData, editLoading, editError, putData, lastPut, putPending>>
  /\ UNCHANGED notActor

\* handleEditChange for the description and the prompt_hint inputs
HandleEditChange ==
  /\ showEditModal
  /\ \/ \E d \in DescriptionValues : editFormData' = [editFormData EXCEPT !.description = d]
     \/ \E h \in PromptHintValues : editFormData' = [editFormData EXCEPT !.prompt_hint = h]
  /\ editFormData' # editFormData
  /\ UNCHANGED <<showEditModal, editLoading, editError, putData, lastPut, putPending>>
  /\ UNCHANGED notActor

\* handleImageChange: a chosen file is kept, an emptied selection changes nothing
HandleImageChange ==
  /\ showEditModal
  /\ \E file \in Files \cup {NoFile} :
       editFormData' = IF file # NoFile THEN [editFormData EXCEPT !.new_image = file]
                                        ELSE editFormData
  /\ editFormData' # editFormData
  /\ UNCHANGED <<showEditModal, editLoading, editError, putData, lastPut, putPending>>
  /\ UNCHANGED notActor

\* handleEditSubmit up to the await: updateActor(actorName, {...editFormData})
HandleEditSubmit ==
  /\ showEditModal
  /\ ~editLoading
  /\ ~putPending
  /\ editLoading' = TRUE
  /\ editError' = NoError
  /\ putData' = editFormData
  /\ lastPut' = updateActor(editFormData)
  /\ putPending' = TRUE
  /\ UNCHANGED <<editFormData, showEditModal>>
  /\ UNCHANGED notActor

\* handleEditSubmit after the await: the modal closes, or the error is shown
EditSettles ==
  \E ok \in BOOLEAN :
    /\ putPending
    /\ editLoading
    /\ putPending' = FALSE
    /\ showEditModal' = IF ok THEN FALSE ELSE showEditModal
    /\ editError' = IF ok THEN editError ELSE "Failed to update actor"
    /\ editLoading' = FALSE
    /\ UNCHANGED <<editFormData, putData, lastPut>>
    /\ UNCHANGED notActor

\* handleFeedback(feedback) up to the await: updateActor(actorName, {feedback_notes: feedback})
HandleFeedback ==
  \E feedback \in FeedbackValues :
    /\ ~showEditModal
    /\ ~putPending
    /\ putData' = [feedback_notes |-> feedback]
    /\ lastPut' = updateActor([feedback_notes |-> feedback])
    /\ putPending' = TRUE
    /\ UNCHANGED <<editFormData, showEditModal, editLoading, editError>>
    /\ UNCHANGED notActor

\* handleFeedback after the await: fetchActorData fills the edit form from the stored actor
\* again, or an alert
FeedbackSettles ==
  \E ok \in BOOLEAN :
    /\ putPending
    /\ ~editLoading
    /\ putPending' = FALSE
    /\ IF ok
         THEN \E d \in DescriptionValues, h \in PromptHintValues :
                editFormData' = [description |-> d, prompt_hint |-> h, new_image |-> NoFile]
         ELSE UNCHANGED editFormData
    /\ UNCHANGED <<showEditModal, editLoading, editError, putData, lastPut>>
    /\ UNCHANGED notActor

NextActor ==
  \/ OpenEditModal
  \/ HideEditModal
  \/ HandleEditChange
  \/ HandleImageChange
  \/ HandleEditSubmit
  \/ EditSettles
  \/ HandleFeedback
  \/ FeedbackSettles

(***************************************************************************)
(* run_tests.sh                                                            *)
(***************************************************************************)

\* curl -w "%{http_code}": the server answers 200, answers with an error, or is not there
HttpCodes == {"200", "500", "000"}

ExitCodes == 0..MaxExitCode

\* a status variable the script has not assigned yet
NotRun == -1

OverallStatusOfApiOnly(api, ui) == IF api = 0 THEN 0 ELSE 1

\* if [ $API_TEST_STATUS -eq 0 ] && [ $UI_TEST_STATUS -eq 0 ]; then exit 0; else exit 1
OverallStatus(api, ui) == IF api = 0 /\ ui = 0 THEN 0 ELSE 1

\* run_tests.sh about to run its first check
StartedTests ==
  /\ testPc = "checkApi"
  /\ API_TEST_STATUS = NotRun
  /\ UI_TEST_STATUS = NotRun
  /\ puppeteerInstalls = 0
  /\ exitStatus = NotRun

InitTests ==
  /\ StartedTests
  /\ apiHttp \in HttpCodes
  /\ frontendHttp \in HttpCodes
  /\ puppeteerListed \in BOOLEAN
  /\ apiOutcome \in ExitCodes
  /\ uiOutcome \in ExitCodes

ParkedTests ==
  /\ StartedTests
  /\ apiHttp = "000"
  /\ frontendHttp = "000"
  /\ puppeteerListed = FALSE
  /\ apiOutcome = 0
  /\ uiOutcome = 0

testInputs == <<apiHttp, frontendHttp, puppeteerListed, apiOutcome, uiOutcome>>

\* API_STATUS=$(curl ... /health); if [ "$API_STATUS" != "200" ]; then exit 1; fi
CheckApiRunning ==
  /\ testPc = "checkApi"
  /\ IF apiHttp # "200"
       THEN testPc' = "exit" /\ exitStatus' = 1
       ELSE testPc' = "checkFrontend" /\ UNCHANGED exitStatus
  /\ UNCHANGED <<API_TEST_STATUS, UI_TEST_STATUS, puppeteerInstalls, testInputs>>
  /\ UNCHANGED notTests

\* FRONTEND_STATUS=$(curl ... :3000); if [ "$FRONTEND_STATUS" != "200" ]; then exit 1; fi
CheckFrontendRunning ==
  /\ testPc = "checkFrontend"
  /\ IF frontendHttp # "200"
       THEN testPc' = "exit" /\ exitStatus' = 1
       ELSE testPc' = "apiTests" /\ UNCHANGED exitStatus
  /\ UNCHANGED <<API_TEST_STATUS, UI_TEST_STATUS, puppeteerInstalls, testInputs>>
  /\ UNCHANGED notTests

\* cd backend; python3 test_api_comprehensive.py; API_TEST_STATUS=$?; cd ..
RunApiTests ==
  /\ testPc = "apiTests"
  /\ API_TEST_STATUS' = apiOutcome
  /\ testPc' = "uiTests"
  /\ UNCHANGED <<UI_TEST_STATUS, puppeteerInstalls, exitStatus, testInputs>>
  /\ UNCHANGED notTests

\* cd frontend; npm run ui-test, after npm install --save-dev puppeteer if it is not listed;
\* UI_TEST_STATUS=$?; cd ..
RunUiTests ==
  /\ testPc = "uiTests"
  /\ puppeteerInstalls' = IF puppeteerListed THEN puppeteerInstalls ELSE puppeteerInstalls + 1
  /\ UI_TEST_STATUS' = uiOutcome
  /\ testPc' = "summary"
  /\ UNCHANGED <<API_TEST_STATUS, exitStatus, testInputs>>
  /\ UNCHANGED notTests

\* Test Results Summary: exit 0 or exit 1
ReportSummary ==
  /\ testPc = "summary"
  /\ exitStatus' = OverallStatus(API_TEST_STATUS, UI_TEST_STATUS)
  /\ testPc' = "exit"
  /\ UNCHANGED <<API_TEST_STATUS, UI_TEST_STATUS, puppeteerInstalls, testInputs>>
  /\ UNCHANGED notTests

NextTests ==
  \/ CheckApiRunning
  \/ CheckFrontendRunning
  \/ RunApiTests
  \/ RunUiTests
  \/ ReportSummary

(***************************************************************************)
(* main.py: POST /initialize and POST /api/initialize                      *)
(***************************************************************************)

\* directories = [generated_images_dir, actor_images_dir, exports_dir, frame_images_dir]
directories == <<"generated_images", "actor_images", "exports", "frame_images">>

\* the JSON null a handler answers with when it returns None
NullBody == [status |-> "null", message |-> "", created |-> <<>>]

CreatesAlways(exists) == TRUE

\* if not os.path.exists(directory): the handler creates the directory and appends it
Creates(exists) == ~exists

\* created_dirs once the loop over directories is done
created_dirs(fs) == SelectSeq(directories, LAMBDA d : Creates(d \in fs))

\* the value initialize_app(request) returns, on a disk that holds the directories fs
initialize_app(ensure_directories, fs) ==
  IF ensure_directories
    THEN IF created_dirs(fs) # <<>>
           THEN [status |-> "ok", message |-> "Directories created", created |-> created_dirs(fs)]
           ELSE [status |-> "ok", message |-> "All directories already exist", created |-> <<>>]
    ELSE NullBody

\* the directories on disk once initialize_app(request) has returned
AfterInitialize(ensure_directories, fs) ==
  IF ensure_directories
    THEN fs \cup {directories[i] : i \in {j \in DOMAIN directories : Creates(directories[j] \in fs)}}
    ELSE fs

\* the backend is up and has not been asked to initialize yet
ServingBackend ==
  /\ initResponse = NullBody
  /\ dirsBefore = {}
  /\ ensureCalls = 0
  /\ initOp = "start"

\* main.py creates the four directories when it starts; any of them may have been removed since
InitInitialize ==
  /\ ServingBackend
  /\ existingDirs \in SUBSET RequiredDirs

ParkedInitialize ==
  /\ ServingBackend
  /\ existingDirs = RequiredDirs

\* @app.post("/initialize") initialize_app(request)
Initialize ==
  \E ensure_directories \in BOOLEAN :
    /\ ensureCalls < MaxEnsureCalls
    /\ initResponse' = initialize_app(ensure_directories, existingDirs)
    /\ existingDirs' = AfterInitialize(ensure_directories, existingDirs)
    /\ dirsBefore' = existingDirs
    /\ ensureCalls' = IF ensure_directories THEN ensureCalls + 1 ELSE ensureCalls
    /\ initOp' = IF ensure_directories THEN "ensure" ELSE "skip"
    /\ UNCHANGED notInitialize

\* @app.post("/api/initialize") api_initialize_app(request), the endpoint App.js calls on startup
ApiInitialize ==
  \E ensure_directories \in BOOLEAN :
    /\ ensureCalls < MaxEnsureCalls
    /\ initResponse' = initialize_app(ensure_directories, existingDirs)
    /\ existingDirs' = AfterInitialize(ensure_directories, existingDirs)
    /\ dirsBefore' = existingDirs
    /\ ensureCalls' = IF ensure_directories THEN ensureCalls + 1 ELSE ensureCalls
    /\ initOp' = IF ensure_directories THEN "apiEnsure" ELSE "skip"
    /\ UNCHANGED notInitialize

\* a directory is removed from the disk while the backend runs
RemoveDirectory ==
  \E d \in existingDirs :
    /\ existingDirs' = existingDirs \ {d}
    /\ ensureCalls' = 0
    /\ initOp' = "remove"
    /\ UNCHANGED <<initResponse, dirsBefore>>
    /\ UNCHANGED notInitialize

NextInitialize ==
  \/ Initialize
  \/ ApiInitialize
  \/ RemoveDirectory

(***************************************************************************)
(* services/api.js: WebSocketClient and the socket module                  *)
(***************************************************************************)

Clients == 1..MaxClients

\* this.maxReconnectAttempts = 5
maxReconnectAttempts == 5

\* this.reconnectDelay = 1000
initialReconnectDelay == 1000

\* the functions callers register: one that only reads the message, one that throws, one
\* that calls its own unsubscribe function when it is invoked
Handlers == {"reads", "throws", "once"}

GivesUpLate(attempts) == attempts > maxReconnectAttempts

\* if (this.reconnectAttempts >= this.maxReconnectAttempts) return;
GivesUp(attempts) == attempts >= maxReconnectAttempts

BackoffLinear(delay) == delay + initialReconnectDelay

\* this.reconnectDelay *= 2
Backoff(delay) == delay * 2

\* this.messageHandlers.filter(h => h !== handler)
FilterOut(hs, handler) == SelectSeq(hs, LAMBDA h : h # handler)

\* the position of the first handler of hs that throws, 0 if none does
FirstThrow(hs) ==
  IF \E i \in DOMAIN hs : hs[i] = "throws"
    THEN CHOOSE i \in DOMAIN hs : hs[i] = "throws" /\ \A j \in 1..(i - 1) : hs[j] # "throws"
    ELSE 0

\* the handlers that this.messageHandlers.forEach(handler => handler(message)) invokes, in
\* order: forEach ends at the first exception, which the surrounding try/catch logs
Invoked(hs) == IF FirstThrow(hs) = 0 THEN hs ELSE SubSeq(hs, 1, FirstThrow(hs))

\* this.messageHandlers once onmessage has returned
HandlersAfterMessage(hs) ==
  IF \E i \in DOMAIN Invoked(hs) : hs[i] = "once" THEN FilterOut(hs, "once") ELSE hs

WsStep(kind, client, handler, before, invoked) ==
  [kind |-> kind, client |-> client, handler |-> handler, before |-> before, invoked |-> invoked]

OtherWsStep == WsStep("other", 0, "", <<>>, <<>>)

\* the socket module loaded, no client constructed
LoadedSocketModule ==
  /\ wsClient = 0
  /\ clientsMade = 0
  /\ readyState = [c \in Clients |-> "none"]
  /\ isConnected = [c \in Clients |-> FALSE]
  /\ reconnectAttempts = [c \in Clients |-> 0]
  /\ reconnectDelay = [c \in Clients |-> initialReconnectDelay]
  /\ messageHandlers = [c \in Clients |-> <<>>]
  /\ reconnectTimer = [c \in Clients |-> 0]
  /\ closedByUser = [c \in Clients |-> FALSE]
  /\ waits = [c \in Clients |-> <<>>]
  /\ unsubscribers = {}
  /\ wsOp = OtherWsStep

InitSocket ==
  /\ LoadedSocketModule
  /\ ctorThrows \in BOOLEAN

ParkedSocket ==
  /\ LoadedSocketModule
  /\ ctorThrows = FALSE

\* the constructor of client c: the field initialisers, then this.initSocket(), whose
\* new WebSocket(wsUrl) either returns a connecting socket or throws into attemptReconnect()
Construct(c) ==
  /\ clientsMade' = c
  /\ isConnected' = [isConnected EXCEPT ![c] = FALSE]
  /\ reconnectAttempts' = [reconnectAttempts EXCEPT ![c] = 0]
  /\ reconnectDelay' = [reconnectDelay EXCEPT ![c] = initialReconnectDelay]
  /\ IF ctorThrows
       THEN /\ reconnectTimer' = [reconnectTimer EXCEPT ![c] = initialReconnectDelay]
            /\ UNCHANGED readyState
       ELSE /\ readyState' = [readyState EXCEPT ![c] = "connecting"]
            /\ UNCHANGED reconnectTimer

\* initSocket() / getSocket() of the socket module
GetSocket ==
  /\ wsClient = 0
  /\ clientsMade < MaxClients
  /\ Construct(clientsMade + 1)
  /\ wsClient' = clientsMade + 1
  /\ wsOp' = OtherWsStep
  /\ UNCHANGED <<messageHandlers, ctorThrows, closedByUser, waits, unsubscribers>>
  /\ UNCHANGED notSocket

\* ws.onopen
SocketOpens ==
  \E c \in Clients :
    /\ readyState[c] = "connecting"
    /\ readyState' = [readyState EXCEPT ![c] = "open"]
    /\ isConnected' = [isConnected EXCEPT ![c] = TRUE]
    /\ reconnectAttempts' = [reconnectAttempts EXCEPT ![c] = 0]
    /\ reconnectDelay' = [reconnectDelay EXCEPT ![c] = initialReconnectDelay]
    /\ waits' = [waits EXCEPT ![c] = <<>>]
    /\ wsOp' = OtherWsStep
    /\ UNCHANGED <<wsClient, clientsMade, messageHandlers, reconnectTimer, ctorThrows,
                   closedByUser, unsubscribers>>
    /\ UNCHANGED notSocket

\* ws.onerror: the browser closes the socket after it
SocketError ==
  \E c \in Clients :
    /\ readyState[c] \in {"connecting", "open"}
    /\ readyState' = [readyState EXCEPT ![c] = "closing"]
    /\ isConnected' = [isConnected EXCEPT ![c] = FALSE]
    /\ wsOp' = OtherWsStep
    /\ UNCHANGED <<wsClient, clientsMade, reconnectAttempts, reconnectDelay, messageHandlers,
                   reconnectTimer, ctorThrows, closedByUser, waits, unsubscribers>>
    /\ UNCHANGED notSocket

\* ws.onclose, with the attemptReconnect() it calls: the connection was lost, refused, or
\* closed by close()
SocketCloses ==
  \E c \in Clients :
    /\ readyState[c] \in {"connecting", "open", "closing"}
    /\ readyState' = [readyState EXCEPT ![c] = "closed"]
    /\ isConnected' = [isConnected EXCEPT ![c] = FALSE]
    /\ reconnectTimer' =
         IF GivesUp(reconnectAttempts[c]) THEN reconnectTimer
         ELSE [reconnectTimer EXCEPT ![c] = reconnectDelay[c]]
    /\ wsOp' = OtherWsStep
    /\ UNCHANGED <<wsClient, clientsMade, reconnectAttempts, reconnectDelay, messageHandlers,
                   ctorThrows, closedByUser, waits, unsubscribers>>
    /\ UNCHANGED notSocket

\* the setTimeout callback of attemptReconnect, with the initSocket() it calls
ReconnectTimerFires ==
  \E c \in Clients :
    /\ reconnectTimer[c] # 0
    /\ Len(waits[c]) < MaxWaits
    /\ waits' = [waits EXCEPT ![c] = Append(@, reconnectTimer[c])]
    /\ reconnectAttempts' = [reconnectAttempts EXCEPT ![c] = @ + 1]
    /\ reconnectDelay' = [reconnectDelay EXCEPT ![c] = Backoff(@)]
    /\ IF ctorThrows
         THEN /\ reconnectTimer' =
                   [reconnectTimer EXCEPT ![c] =
                      IF GivesUp(reconnectAttempts[c] + 1) THEN 0 ELSE Backoff(reconnectDelay[c])]
              /\ UNCHANGED readyState
         ELSE /\ reconnectTimer' = [reconnectTimer EXCEPT ![c] = 0]
              /\ readyState' = [readyState EXCEPT ![c] = "connecting"]
    /\ wsOp' = OtherWsStep
    /\ UNCHANGED <<wsClient, clientsMade, isConnected, messageHandlers, ctorThrows,
                   closedByUser, unsubscribers>>
    /\ UNCHANGED notSocket

\* ws.close() on the socket of a client: nothing for a socket that is closing or closed
WsClose(c) ==
  readyState' = [readyState EXCEPT ![c] = IF @ \in {"connecting", "open"} THEN "closing" ELSE @]

\* WebSocketClient.close() called on a client directly: if (this.ws) this.ws.close()
ClientClose ==
  \E c \in 1..clientsMade :
    /\ WsClose(c)
    /\ closedByUser' = [closedByUser EXCEPT ![c] = TRUE]
    /\ wsOp' = OtherWsStep
    /\ UNCHANGED <<wsClient, clientsMade, isConnected, reconnectAttempts, reconnectDelay,
                   messageHandlers, reconnectTimer, ctorThrows, waits, unsubscribers>>
    /\ UNCHANGED notSocket

\* closeSocket(): if (wsClient) { wsClient.close(); wsClient = null; }
CloseSocket ==
  /\ wsClient # 0
  /\ WsClose(wsClient)
  /\ closedByUser' = [closedByUser EXCEPT ![wsClient] = TRUE]
  /\ wsClient' = 0
  /\ wsOp' = OtherWsStep
  /\ UNCHANGED <<clientsMade, isConnected, reconnectAttempts, reconnectDelay, messageHandlers,
                 reconnectTimer, ctorThrows, waits, unsubscribers>>
  /\ UNCHANGED notSocket

\* addMessageHandler(handler) of the socket module: getSocket(), socket.addMessageHandler,
\* and the unsubscribe function handed back
AddMessageHandler ==
  \E handler \in Handlers :
    LET c == IF wsClient # 0 THEN wsClient ELSE clientsMade + 1
    IN /\ c \in Clients
       /\ Len(messageHandlers[c]) < MaxHandlers
       /\ IF wsClient # 0
            THEN UNCHANGED <<wsClient, clientsMade, readyState, isConnected, reconnectAttempts,
                             reconnectDelay, reconnectTimer>>
            ELSE Construct(c) /\ wsClient' = c
       /\ messageHandlers' = [messageHandlers EXCEPT ![c] = Append(@, handler)]
       /\ unsubscribers' = unsubscribers \cup {<<c, handler>>}
       /\ wsOp' = OtherWsStep
       /\ UNCHANGED <<ctorThrows, closedByUser, waits>>
       /\ UNCHANGED notSocket

\* the function addMessageHandler returned: () => socket.removeMessageHandler(handler)
Unsubscribe ==
  \E u \in unsubscribers :
    /\ messageHandlers' = [messageHandlers EXCEPT ![u[1]] = FilterOut(@, u[2])]
    /\ wsOp' = WsStep("unsubscribe", u[1], u[2], messageHandlers[u[1]], <<>>)
    /\ UNCHANGED <<wsClient, clientsMade, readyState, isConnected, reconnectAttempts,
                   reconnectDelay, reconnectTimer, ctorThrows, closedByUser, waits, unsubscribers>>
    /\ UNCHANGED notSocket

\* ws.onmessage on the open socket of a client
SocketMessage ==
  \E c \in Clients :
    /\ readyState[c] = "open"
    /\ messageHandlers' = [messageHandlers EXCEPT ![c] = HandlersAfterMessage(@)]
    /\ wsOp' = WsStep("message", c, "", messageHandlers[c], Invoked(messageHandlers[c]))
    /\ UNCHANGED <<wsClient, clientsMade, readyState, isConnected, reconnectAttempts,
                   reconnectDelay, reconnectTimer, ctorThrows, closedByUser, waits, unsubscribers>>
    /\ UNCHANGED notSocket

\* the connection life cycle of the clients made through the socket module
NextSocket ==
  \/ GetSocket
  \/ SocketOpens
  \/ SocketError
  \/ SocketCloses
  \/ ReconnectTimerFires
  \/ ClientClose
  \/ CloseSocket

\* one client with its handlers, the messages it receives and its reconnections
NextHandlers ==
  \/ AddMessageHandler
  \/ Unsubscribe
  \/ SocketMessage
  \/ SocketOpens
  \/ SocketCloses
  \/ ReconnectTimerFires

(***************************************************************************)
(* Specifications: one page or script at a time, the others parked.        *)
(***************************************************************************)
StartSB ==
  /\ InitSB
  /\ ParkedFS
  /\ ParkedLists
  /\ ParkedCreate
  /\ ParkedRun
  /\ ParkedUrl
  /\ ParkedActor
  /\ ParkedTests
  /\ ParkedInitialize
  /\ ParkedSocket

SpecSB == StartSB /\ [][NextSB]_vars

StartFS ==
  /\ InitFS
  /\ ParkedSB
  /\ ParkedLists
  /\ ParkedCreate
  /\ ParkedRun
  /\ ParkedUrl
  /\ ParkedActor
  /\ ParkedTests
  /\ ParkedInitialize
  /\ ParkedSocket

SpecFS == StartFS /\ [][NextFS]_vars

StartLists ==
  /\ InitLists
  /\ ParkedSB
  /\ ParkedFS
  /\ ParkedCreate
  /\ ParkedRun
  /\ ParkedUrl
  /\ ParkedActor
  /\ ParkedTests
  /\ ParkedInitialize
  /\ ParkedSocket

SpecLists == StartLists /\ [][NextLists]_vars

StartCreate ==
  /\ InitCreate
  /\ ParkedSB
  /\ ParkedFS
  /\ ParkedLists
  /\ ParkedRun
  /\ ParkedUrl
  /\ ParkedActor
  /\ ParkedTests
  /\ ParkedInitialize
  /\ ParkedSocket

SpecCreate == StartCreate /\ [][NextCreate]_vars

StartUrl ==
  /\ InitUrl
  /\ ParkedSB
  /\ ParkedFS
  /\ ParkedLists
  /\ ParkedCreate
  /\ ParkedRun
  /\ ParkedActor
  /\ ParkedTests
  /\ ParkedInitialize
  /\ ParkedSocket

SpecUrl == StartUrl /\ [][NextUrl]_vars

StartActor ==
  /\ InitActor
  /\ ParkedSB
  /\ ParkedFS
  /\ ParkedLists
  /\ ParkedCreate
  /\ ParkedRun
  /\ ParkedUrl
  /\ ParkedTests
  /\ ParkedInitialize
  /\ ParkedSocket

SpecActor == StartActor /\ [][NextActor]_vars

StartRun ==
  /\ InitRun
  /\ ParkedSB
  /\ ParkedFS
  /\ ParkedLists
  /\ ParkedCreate
  /\ ParkedUrl
  /\ ParkedActor
  /\ ParkedTests
  /\ ParkedInitialize
  /\ ParkedSocket

SpecRun == StartRun /\ [][NextRun]_vars

StartTests ==
  /\ InitTests
  /\ ParkedSB
  /\ ParkedFS
  /\ ParkedLists
  /\ ParkedCreate
  /\ ParkedUrl
  /\ ParkedActor
  /\ ParkedRun
  /\ ParkedInitialize
  /\ ParkedSocket

SpecTests == StartTests /\ [][NextTests]_vars

StartInitialize ==
  /\ InitInitialize
  /\ ParkedSB
  /\ ParkedFS
  /\ ParkedLists
  /\ ParkedCreate
  /\ ParkedUrl
  /\ ParkedActor
  /\ ParkedRun
  /\ ParkedTests
  /\ ParkedSocket

SpecInitialize == StartInitialize /\ [][NextInitialize]_vars

StartSocket ==
  /\ InitSocket
  /\ ParkedSB
  /\ ParkedFS
  /\ ParkedLists
  /\ ParkedCreate
  /\ ParkedUrl
  /\ ParkedActor
  /\ ParkedRun
  /\ ParkedTests
  /\ ParkedInitialize

SpecSocket == StartSocket /\ [][NextSocket]_vars

SpecHandlers == StartSocket /\ [][NextHandlers]_vars

(***************************************************************************)
(* Properties of StoryboardView.js                                         *)
(***************************************************************************)

\* C1: after a successful feedback submission the selected frame carries the new
\* image_url and one more feedback_history entry holding the submitted text, and every
\* other frame on display is exactly what it was before the response arrived.
C1_FeedbackTouchesOnlySelectedFrame ==
  lastOp.kind = "feedbackOk" =>
    /\ DOMAIN frames = DOMAIN lastOp.before
    /\ \A i \in DOMAIN frames :
         IF lastOp.before[i].frame_id = lastOp.frame_id
           THEN /\ frames[i].image_url = lastOp.url
                /\ frames[i].feedback_history =
                     Append(lastOp.before[i].feedback_history, lastOp.text)
           ELSE frames[i] = lastOp.before[i]

\* C5: after a successful fetchFramesForPage the page holds exactly framesPerPage slots:
\* the frames the server returned, followed by placeholders only.
C5_ExactlySixSlots ==
  lastOp.kind = "fetchOk" =>
    /\ Len(frames) = framesPerPage
    /\ Len(lastOp.before) <= Len(frames)
    /\ SubSeq(frames, 1, Len(lastOp.before)) = lastOp.before
    /\ \A i \in (Len(lastOp.before) + 1)..Len(frames) : frames[i].is_placeholder

(***************************************************************************)
(* Properties of FilmSchoolConsultation.js                                 *)
(***************************************************************************)

\* the page holds questions, shows the evaluation card instead, and offers no 'Proceed' button
QuestionsHidden ==
  /\ fsPc = "idle"
  /\ ~fsLoading
  /\ questions # <<>>
  /\ evaluation # NoEvaluation
  /\ nextStage = NoStage

\* C2: whenever the page holds questions returned for a following stage and no request is
\* pending, the questions are on display or the 'Proceed' button that leads to them is.
C2_NextQuestionsReachable ==
  (fsPc = "idle" /\ ~fsLoading /\ questions # <<>>) => (QuestionsDisplayed \/ ProceedOffered)

\* Once the questions are hidden behind the evaluation card without a 'Proceed' button,
\* no handler of the page brings them back.
HiddenQuestionsStayHidden == [][QuestionsHidden => QuestionsHidden']_vars

\* every question on display has a non-empty answer
AllAnswered ==
  \A i \in 0..(Len(questions) - 1) : i \in DOMAIN answers /\ answers[i] # ""

\* C3: the submit button is enabled only if every displayed question has been answered,
\* and a submitAnswers request in flight carries a non-empty answer for every question.
C3_SubmitOnlyWhenAllAnswered ==
  /\ SubmitEnabled => AllAnswered
  /\ fsPc = "submit" => \A i \in DOMAIN submitted : submitted[i] # ""

\* C4: 'Consultation Complete!' is on display only if the answers of every stage, the last
\* one included, have been submitted and no questions remain.
C4_CompleteOnlyAfterLastStage ==
  CompleteShown => (srvStage > NumStages /\ questions = <<>>)

\* C6: a delete request for a project or an actor is sent only after the user accepted the
\* confirmation dialog for it; a cancelled dialog sends no request and leaves the displayed
\* lists (and the server's) as they were.
C6_DeleteOnlyAfterConfirm ==
  /\ [](/\ sentDeletes \subseteq confirmedDeletes
        /\ \A r \in listInflight :
             r.kind = "delete" => <<r.page, r.id>> \in confirmedDeletes)
  /\ [][listOp'[1] = "cancel" => UNCHANGED <<listInflight, sentDeletes, items, srvItems>>]_vars

\* a dialog has just been cancelled for an entry while a delete confirmed earlier was sent
C6_Witness ==
  /\ listOp[1] = "cancel"
  /\ sentDeletes # {}
  /\ <<listOp[2], listOp[3]>> \notin sentDeletes

\* C7: once the create request has settled the router is on /projects/{project_id} of the
\* project just created exactly when the request succeeded; after a failure the user is on
\* the form, an error is shown, the entered data is what it was, and the submit button is
\* enabled.
C7_NavigateIffCreated ==
  /\ cpLast.kind = "created" =>
       /\ location = DetailPath(cpLast.project_id)
       /\ cpLast.project_id = srvCreated
  /\ cpLast.kind = "failed" =>
       /\ location = FormPath
       /\ cpError # NoError
       /\ formData = cpLast.form
       /\ ~isSubmitting
  /\ location.page = "detail" => location.project_id \in 1..srvCreated

\* a create request has failed on a filled-in form after an earlier one had succeeded
C7_Witness ==
  /\ cpLast.kind = "failed"
  /\ srvCreated > 0
  /\ formData.script # ""

\* C8: when run_app.sh has started the backend locally and the user's backend/config/.env
\* sets MONGODB_URI, the backend connects to that URI.
C8_UserUriWins ==
  (backendIn = "local" /\ dotenvExists /\ dotenvFile["MONGODB_URI"] # Unset) =>
     backendUri = dotenvFile["MONGODB_URI"]

\* a relative path as the backend stores it: a file in one of the storage directories, or
\* a file below one of the static routes
StoredPath(u) ==
  \/ \E d \in StorageDirs : u = <<d, "/", "a.png">>
  \/ \E r \in StaticRoutes : u = <<"/", r, "/", "a.png">>

\* C9: formatImageUrl returns null for an empty value, an absolute http(s) URL unchanged,
\* and for every stored relative path a URL below a static route of the backend, for
\* every setting of REACT_APP_API_URL.
C9_FormatsConsistently ==
  urlPc = "shown" =>
    /\ image_url = <<>> => formatted = Null
    /\ StartsWithHttp(image_url) => formatted = image_url
    /\ StoredPath(image_url) => ServedStatic(formatted, BackendOrigin(envApiUrl))

\* C10: every field among description, prompt_hint and feedback_notes that the update data
\* holds is in the request with the same value, in a JSON request and in a FormData request.
C10_SameFieldsBothFormats ==
  lastPut.format # "none" =>
    \A k \in TextFields \cap DOMAIN putData :
      /\ k \in DOMAIN lastPut.body
      /\ lastPut.body[k] = putData[k]

\* both preflight checks of run_tests.sh pass
PreflightPasses == apiHttp = "200" /\ frontendHttp = "200"

\* C11: no test runs unless both preflight checks passed; when run_tests.sh has exited,
\* either a preflight check failed, the status is 1 and no test ran, or both test runs
\* took place (the UI tests whatever the API tests returned) and the status is 0 exactly
\* when both runs returned 0.
C11_TestsRunAndStatus ==
  /\ (API_TEST_STATUS # NotRun \/ UI_TEST_STATUS # NotRun) => PreflightPasses
  /\ testPc = "exit" =>
       IF PreflightPasses
         THEN /\ API_TEST_STATUS = apiOutcome
              /\ UI_TEST_STATUS = uiOutcome
              /\ exitStatus \in {0, 1}
              /\ exitStatus = 0 <=> (apiOutcome = 0 /\ uiOutcome = 0)
         ELSE /\ exitStatus = 1
              /\ API_TEST_STATUS = NotRun
              /\ UI_TEST_STATUS = NotRun

\* the script has exited with 1 after failed API tests and passed UI tests
C11_Witness ==
  /\ testPc = "exit"
  /\ API_TEST_STATUS > 0
  /\ UI_TEST_STATUS = 0
  /\ exitStatus = 1

\* the elements of a sequence
Range(seq) == {seq[i] : i \in DOMAIN seq}

Pow2(n) == IF n = 0 THEN 1 ELSE IF n = 1 THEN 2 ELSE IF n = 2 THEN 4 ELSE IF n = 3 THEN 8
           ELSE IF n = 4 THEN 16 ELSE IF n = 5 THEN 32 ELSE IF n = 6 THEN 64 ELSE 128

\* C13: a client makes at most 5 reconnection attempts without an open in between, and
\* once it has made 5 no further attempt is scheduled.
C13_AtMostFiveAttempts ==
  \A c \in Clients :
    /\ Len(waits[c]) <= 5
    /\ Len(waits[c]) = 5 => reconnectTimer[c] = 0

\* a client has given up: five attempts made, the last socket closed, no timer pending
C13_Witness ==
  \E c \in Clients :
    /\ Len(waits[c]) = 5
    /\ readyState[c] = "closed"
    /\ reconnectTimer[c] = 0

\* C14: a client on which close() was called, directly or through closeSocket(), has no
\* connecting or open WebSocket afterwards, and at most one client is connected or
\* connecting at a time.
C14_ClosedClientStaysClosed ==
  /\ \A c \in Clients : closedByUser[c] => readyState[c] \notin {"connecting", "open"}
  /\ Cardinality({c \in Clients : readyState[c] \in {"connecting", "open"}}) <= 1

\* C15: the wait before the k-th attempt in a row is 1000 * 2^(k-1) ms, and a client whose
\* socket is open has its attempt counter at 0 and its delay at 1000 ms.
C15_ExponentialBackoff ==
  \A c \in Clients :
    /\ \A k \in DOMAIN waits[c] : waits[c][k] = 1000 * Pow2(k - 1)
    /\ readyState[c] = "open" => reconnectAttempts[c] = 0 /\ reconnectDelay[c] = 1000

\* a client is connecting for the fifth time in a row, after waits of 1, 2, 4, 8 and 16 s
C15_Witness ==
  \E c \in Clients :
    /\ waits[c] = <<1000, 2000, 4000, 8000, 16000>>
    /\ readyState[c] = "connecting"

\* the number of times h occurs in a sequence
Count(seq, h) == Cardinality({i \in DOMAIN seq : seq[i] = h})

\* C16: a message is handed to every registration held when it arrives, once each, and to
\* no handler that is not registered; calling the unsubscribe function of a registration
\* removes that registration and leaves every other one in place.
C16_EveryHandlerOncePerMessage ==
  /\ wsOp.kind = "message" =>
       \A h \in Handlers : Count(wsOp.invoked, h) = Count(wsOp.before, h)
  /\ wsOp.kind = "unsubscribe" =>
       \A h \in Handlers :
         Count(messageHandlers[wsOp.client], h) =
           IF h = wsOp.handler /\ Count(wsOp.before, h) > 0
             THEN Count(wsOp.before, h) - 1
             ELSE Count(wsOp.before, h)

====
